---- MODULE Spec2Model ----
(***************************************************************************)
(* Multiplayer tic-tac-toe server: the game engine (game-engine.js), the   *)
(* room manager (room-manager.js) and the socket handlers                  *)
(* (socket-handler.js).                                                    *)
(*                                                                         *)
(* Room objects live in `heap'; the Map `rooms' of room-manager.js maps a  *)
(* roomId to a reference into the heap (0: no entry).  A joinRoom call     *)
(* suspended at bcrypt.compare keeps its reference to the room object even *)
(* after the Map entry is deleted or replaced, so objects and Map entries  *)
(* are kept apart.                                                         *)
(*                                                                         *)
(* `subs' holds the socket.io rooms each socket has joined (socket.join,   *)
(* socket.leave; a closed socket is in none).  What a handler emits is a   *)
(* sequence of messages, each with its event, the sockets it is addressed  *)
(* to, its code and its body.                                              *)
(*                                                                         *)
(* Spec     : the server; one action per socket event handler, create_room *)
(*            and join_room split at their await.  Connections are the     *)
(*            socket ids 1..NumConns, all connected from the start (a      *)
(*            connection that has sent nothing has left no trace in the    *)
(*            server).  Clients click on the cells 0..MaxCell only, which  *)
(*            is enough for a game to be won.                              *)
(* SpecGame : the exported functions of the room manager called directly   *)
(*            on one started game, over the whole 3x3 board.               *)
(* SpecLobby: the server with LobbyRoomIds room ids and LobbyObjs room     *)
(*            objects, for what involves more than one room; its clients   *)
(*            open games but never finish them.                            *)
(* SpecClient: the server with the pages of main.js as its clients: a page *)
(*            creates, joins and leaves through its buttons, and the       *)
(*            events and messages between page and server are in flight    *)
(*            until handled.  In the other three the events come from      *)
(*            any client whatsoever and the pages stay as they start.      *)
(***************************************************************************)
EXTENDS Integers, Sequences, FiniteSets, Bags, TLC

\* ---------------------------------------------------------------------
\* Bounds
\* ---------------------------------------------------------------------
NumConns == 3
NumRoomIds == 1
MaxObjs == 1
MaxPending == 2
MaxCell == 4
MaxIndex == 9

Conns == 1..NumConns
RoomIds == 1..NumRoomIds
Objs == 1..MaxObjs
PassKeys == {"abcd", "wxyz"}
Indexes == -1..MaxIndex

\* ---------------------------------------------------------------------
\* game-engine.js
\* ---------------------------------------------------------------------
Null == "null"
Cells == 0..8

WINNING_LINES ==
  << <<0, 1, 2>>, <<3, 4, 5>>, <<6, 7, 8>>,
     <<0, 3, 6>>, <<1, 4, 7>>, <<2, 5, 8>>,
     <<0, 4, 8>>, <<2, 4, 6>> >>

EmptyBoard == [i \in Cells |-> Null]

\* The for-of loop of checkWinner over `lines', from position k on: the
\* first line whose three cells hold the same non-null mark decides.
RECURSIVE scanLines(_, _, _)
scanLines(board, lines, k) ==
  IF k > Len(lines) THEN Null
  ELSE LET a == lines[k][1]
           b == lines[k][2]
           c == lines[k][3]
       IN IF board[a] /= Null /\ board[a] = board[b] /\ board[a] = board[c]
          THEN board[a]
          ELSE scanLines(board, lines, k + 1)

\* checkWinner that scans the three rows only.
checkWinnerRowsOnly(board) == scanLines(board, SubSeq(WINNING_LINES, 1, 3), 1)

checkWinner(board) == scanLines(board, WINNING_LINES, 1)

\* checkDraw that stops looking after the eighth cell.
checkDrawShort(board) == \A i \in 0..7 : board[i] /= Null

checkDraw(board) == \A i \in Cells : board[i] /= Null

\* A cell read board[index]: undefined (not null) outside the array.
cellAt(board, index) == IF index \in Cells THEN board[index] ELSE "undefined"

\* validateMove with the cell checks made before the turn check.
validateMoveCellFirst(room, playerRole, index) ==
  IF room.status /= "playing" THEN [valid |-> FALSE, code |-> "GAME_NOT_STARTED"]
  ELSE IF index < 0 \/ index > 8 THEN [valid |-> FALSE, code |-> "INVALID_CELL"]
  ELSE IF cellAt(room.board, index) /= Null THEN [valid |-> FALSE, code |-> "CELL_TAKEN"]
  ELSE IF room.turn /= playerRole THEN [valid |-> FALSE, code |-> "NOT_YOUR_TURN"]
  ELSE [valid |-> TRUE, code |-> "ok"]

\* validateMove that does not look at whose turn it is.
validateMoveAnyTurn(room, playerRole, index) ==
  IF room.status /= "playing" THEN [valid |-> FALSE, code |-> "GAME_NOT_STARTED"]
  ELSE IF index < 0 \/ index > 8 THEN [valid |-> FALSE, code |-> "INVALID_CELL"]
  ELSE IF cellAt(room.board, index) /= Null THEN [valid |-> FALSE, code |-> "CELL_TAKEN"]
  ELSE [valid |-> TRUE, code |-> "ok"]

\* validateMove that does not look at what the cell holds.
validateMoveAnyCell(room, playerRole, index) ==
  IF room.status /= "playing" THEN [valid |-> FALSE, code |-> "GAME_NOT_STARTED"]
  ELSE IF room.turn /= playerRole THEN [valid |-> FALSE, code |-> "NOT_YOUR_TURN"]
  ELSE IF index < 0 \/ index > 8 THEN [valid |-> FALSE, code |-> "INVALID_CELL"]
  ELSE [valid |-> TRUE, code |-> "ok"]

validateMove(room, playerRole, index) ==
  IF room.status /= "playing" THEN [valid |-> FALSE, code |-> "GAME_NOT_STARTED"]
  ELSE IF room.turn /= playerRole THEN [valid |-> FALSE, code |-> "NOT_YOUR_TURN"]
  ELSE IF index < 0 \/ index > 8 THEN [valid |-> FALSE, code |-> "INVALID_CELL"]
  ELSE IF cellAt(room.board, index) /= Null THEN [valid |-> FALSE, code |-> "CELL_TAKEN"]
  ELSE [valid |-> TRUE, code |-> "ok"]

getOppositeRole(role) == IF role = "X" THEN "O" ELSE "X"

\* applyMove with the turn switched before the outcome is looked at.
applyMoveSwitchFirst(room, index) ==
  LET placed == [room EXCEPT !.board[index] = room.turn,
                             !.turn = IF room.turn = "X" THEN "O" ELSE "X"]
      winner == checkWinner(placed.board)
  IN IF winner /= Null
     THEN [room |-> [placed EXCEPT !.status = "ended"], winner |-> winner]
     ELSE IF checkDraw(placed.board)
     THEN [room |-> [placed EXCEPT !.status = "ended"], winner |-> "draw"]
     ELSE [room |-> placed, winner |-> Null]

\* applyMove that looks for a draw only and never for a winner.
applyMoveDrawOnly(room, index) ==
  LET placed == [room EXCEPT !.board[index] = room.turn]
  IN IF checkDraw(placed.board)
     THEN [room |-> [placed EXCEPT !.status = "ended"], winner |-> "draw"]
     ELSE [room |-> [placed EXCEPT !.turn = IF placed.turn = "X" THEN "O" ELSE "X"],
           winner |-> Null]

\* applyMove mutates the room and returns { winner }.
applyMove(room, index) ==
  LET placed == [room EXCEPT !.board[index] = room.turn]
      winner == checkWinner(placed.board)
  IN IF winner /= Null
     THEN [room |-> [placed EXCEPT !.status = "ended"], winner |-> winner]
     ELSE IF checkDraw(placed.board)
     THEN [room |-> [placed EXCEPT !.status = "ended"], winner |-> "draw"]
     ELSE [room |-> [placed EXCEPT !.turn = IF placed.turn = "X" THEN "O" ELSE "X"],
           winner |-> Null]


\* ---------------------------------------------------------------------
\* room-manager.js: state
\* ---------------------------------------------------------------------
VARIABLES
  heap,            \* room objects: Objs -> room record (NoRoom: unused slot)
  rooms,           \* the Map `rooms': RoomIds -> reference into heap, 0 if absent
  pendingCreates,  \* bag of createRoom calls suspended at bcrypt.hash
  pendingJoins,    \* bag of joinRoom calls suspended at bcrypt.compare
  closed,          \* connections whose disconnect event has been handled
  subs,            \* socket.io rooms: connection -> room names it has joined
  gameState,       \* the page of each connection: its gameState and its screen
  toServer,        \* events each socket has emitted, not yet handled by the server
  toClient         \* messages emitted to each socket, not yet handled by its page

serverVars == <<heap, rooms, pendingCreates, pendingJoins, closed, subs>>
clientVars == <<gameState, toServer, toClient>>
vars == <<heap, rooms, pendingCreates, pendingJoins, closed, subs,
          gameState, toServer, toClient>>

NoRoom ==
  [roomId |-> 0, passKeyHash |-> <<>>, players |-> <<>>, board |-> EmptyBoard,
   turn |-> "X", status |-> "free", replayVotes |-> {}, startingTurn |-> "X"]

\* bcrypt.hash / bcrypt.compare: compare succeeds exactly on the hashed key.
bcryptHash(passKey) == <<"bcrypt", passKey>>
bcryptCompare(passKey, hash) == hash = bcryptHash(passKey)

\* The room literal built by createRoom.
newRoom(roomId, passKey, socketId) ==
  [roomId |-> roomId,
   passKeyHash |-> bcryptHash(passKey),
   players |-> << [socketId |-> socketId, role |-> "X"] >>,
   board |-> EmptyBoard,
   turn |-> "X",
   status |-> "waiting",
   replayVotes |-> {},
   startingTurn |-> "X"]

\* players.findIndex(p => p.socketId === socketId), 0 for -1.
RECURSIVE findIndexFrom(_, _, _)
findIndexFrom(players, socketId, k) ==
  IF k > Len(players) THEN 0
  ELSE IF players[k].socketId = socketId THEN k
  ELSE findIndexFrom(players, socketId, k + 1)

findIndex(players, socketId) == findIndexFrom(players, socketId, 1)

\* players.splice(k, 1)
splice(players, k) ==
  SubSeq(players, 1, k - 1) \o SubSeq(players, k + 1, Len(players))

memberIds(room) == {room.players[i].socketId : i \in 1..Len(room.players)}

\* An object no Map entry and no suspended joinRoom refers to is garbage;
\* its slot is reused by a later createRoom.
collect(h, m, pj) ==
  [o \in DOMAIN h |->
     IF (\E r \in DOMAIN m : m[r] = o) \/ (\E p \in BagToSet(pj) : p.room = o)
     THEN h[o] ELSE NoRoom]

freeObjs(h) == {o \in DOMAIN h : h[o] = NoRoom}
allocObj(h) == CHOOSE o \in freeObjs(h) : \A o2 \in freeObjs(h) : o <= o2

getRoom(m, roomId) == m[roomId]

getPlayerRole(h, m, roomId, socketId) ==
  IF m[roomId] = 0 THEN Null
  ELSE LET room == h[m[roomId]]
           k == findIndex(room.players, socketId)
       IN IF k = 0 THEN Null ELSE room.players[k].role

\* createRoom after bcrypt.hash: build the room and rooms.set(roomId, room).
createRoomResume(h, m, roomId, passKey, socketId) ==
  LET o == allocObj(h)
  IN [heap |-> [h EXCEPT ![o] = newRoom(roomId, passKey, socketId)],
      rooms |-> [m EXCEPT ![roomId] = o]]

\* joinRoom that tests for a full room only before the await: after it the
\* caller is pushed whatever the room has become.
joinRoomResumeNoFull(room, passKey, socketId) ==
  IF ~bcryptCompare(passKey, room.passKeyHash)
  THEN [room |-> room, success |-> FALSE, code |-> "WRONG_PASSKEY",
        role |-> Null, alreadyJoined |-> FALSE]
  ELSE IF findIndex(room.players, socketId) /= 0
  THEN [room |-> room, success |-> TRUE, code |-> "ok",
        role |-> room.players[findIndex(room.players, socketId)].role,
        alreadyJoined |-> TRUE]
  ELSE LET role == IF Len(room.players) = 0 THEN "X" ELSE "O"
           pushed == [room EXCEPT !.players =
                        Append(room.players, [socketId |-> socketId, role |-> role])]
       IN [room |-> IF Len(pushed.players) = 2
                    THEN [pushed EXCEPT !.status = "playing"] ELSE pushed,
           success |-> TRUE, code |-> "ok", role |-> role, alreadyJoined |-> FALSE]

\* joinRoom that tests for a full room before it compares the pass key.
joinRoomResumeFullFirst(room, passKey, socketId) ==
  IF Len(room.players) >= 2
  THEN [room |-> room, success |-> FALSE, code |-> "ROOM_FULL",
        role |-> Null, alreadyJoined |-> FALSE]
  ELSE IF ~bcryptCompare(passKey, room.passKeyHash)
  THEN [room |-> room, success |-> FALSE, code |-> "WRONG_PASSKEY",
        role |-> Null, alreadyJoined |-> FALSE]
  ELSE IF findIndex(room.players, socketId) /= 0
  THEN [room |-> room, success |-> TRUE, code |-> "ok",
        role |-> room.players[findIndex(room.players, socketId)].role,
        alreadyJoined |-> TRUE]
  ELSE LET role == IF Len(room.players) = 0 THEN "X" ELSE "O"
           pushed == [room EXCEPT !.players =
                        Append(room.players, [socketId |-> socketId, role |-> role])]
       IN [room |-> IF Len(pushed.players) = 2
                    THEN [pushed EXCEPT !.status = "playing"] ELSE pushed,
           success |-> TRUE, code |-> "ok", role |-> role, alreadyJoined |-> FALSE]

\* joinRoom that pushes the caller first and validates afterwards.
joinRoomResumePushFirst(room, passKey, socketId) ==
  LET role == IF Len(room.players) = 0 THEN "X" ELSE "O"
      pushed == [room EXCEPT !.players =
                   Append(room.players, [socketId |-> socketId, role |-> role])]
  IN IF ~bcryptCompare(passKey, room.passKeyHash)
     THEN [room |-> pushed, success |-> FALSE, code |-> "WRONG_PASSKEY",
           role |-> Null, alreadyJoined |-> FALSE]
     ELSE IF Len(room.players) >= 2
     THEN [room |-> room, success |-> FALSE, code |-> "ROOM_FULL",
           role |-> Null, alreadyJoined |-> FALSE]
     ELSE IF findIndex(room.players, socketId) /= 0
     THEN [room |-> room, success |-> TRUE, code |-> "ok",
           role |-> room.players[findIndex(room.players, socketId)].role,
           alreadyJoined |-> TRUE]
     ELSE [room |-> IF Len(pushed.players) = 2
                    THEN [pushed EXCEPT !.status = "playing"] ELSE pushed,
           success |-> TRUE, code |-> "ok", role |-> role, alreadyJoined |-> FALSE]

\* joinRoom that gives the joiner the role the member present does not hold.
joinRoomResumeOpposite(room, passKey, socketId) ==
  IF ~bcryptCompare(passKey, room.passKeyHash)
  THEN [room |-> room, success |-> FALSE, code |-> "WRONG_PASSKEY",
        role |-> Null, alreadyJoined |-> FALSE]
  ELSE IF Len(room.players) >= 2
  THEN [room |-> room, success |-> FALSE, code |-> "ROOM_FULL",
        role |-> Null, alreadyJoined |-> FALSE]
  ELSE IF findIndex(room.players, socketId) /= 0
  THEN [room |-> room, success |-> TRUE, code |-> "ok",
        role |-> room.players[findIndex(room.players, socketId)].role,
        alreadyJoined |-> TRUE]
  ELSE LET role == IF Len(room.players) = 0 THEN "X"
                   ELSE getOppositeRole(room.players[1].role)
           pushed == [room EXCEPT !.players =
                        Append(room.players, [socketId |-> socketId, role |-> role])]
       IN [room |-> IF Len(pushed.players) = 2
                    THEN [pushed EXCEPT !.status = "playing"] ELSE pushed,
           success |-> TRUE, code |-> "ok", role |-> role, alreadyJoined |-> FALSE]

\* joinRoom after bcrypt.compare, on the room object fetched before it.
joinRoomResume(room, passKey, socketId) ==
  IF ~bcryptCompare(passKey, room.passKeyHash)
  THEN [room |-> room, success |-> FALSE, code |-> "WRONG_PASSKEY",
        role |-> Null, alreadyJoined |-> FALSE]
  ELSE IF Len(room.players) >= 2
  THEN [room |-> room, success |-> FALSE, code |-> "ROOM_FULL",
        role |-> Null, alreadyJoined |-> FALSE]
  ELSE IF findIndex(room.players, socketId) /= 0
  THEN [room |-> room, success |-> TRUE, code |-> "ok",
        role |-> room.players[findIndex(room.players, socketId)].role,
        alreadyJoined |-> TRUE]
  ELSE LET role == IF Len(room.players) = 0 THEN "X" ELSE "O"
           pushed == [room EXCEPT !.players =
                        Append(room.players, [socketId |-> socketId, role |-> role])]
       IN [room |-> IF Len(pushed.players) = 2
                    THEN [pushed EXCEPT !.status = "playing"] ELSE pushed,
           success |-> TRUE, code |-> "ok", role |-> role, alreadyJoined |-> FALSE]

\* joinRoom as one call, for a bcrypt.compare that resolves before any
\* other event is handled.
joinRoom(h, m, roomId, passKey, socketId) ==
  IF m[roomId] = 0
  THEN [heap |-> h, success |-> FALSE, code |-> "ROOM_NOT_FOUND",
        role |-> Null, alreadyJoined |-> FALSE]
  ELSE LET r == joinRoomResume(h[m[roomId]], passKey, socketId)
       IN [heap |-> [h EXCEPT ![m[roomId]] = r.room], success |-> r.success,
           code |-> r.code, role |-> r.role, alreadyJoined |-> r.alreadyJoined]

\* applyMoveToRoom that plays for whoever's turn it is, without looking
\* the caller up in room.players.
applyMoveToRoomAnyCaller(h, m, roomId, socketId, index) ==
  IF m[roomId] = 0
  THEN [heap |-> h, success |-> FALSE, code |-> "ROOM_NOT_FOUND", winner |-> Null]
  ELSE LET o == m[roomId]
           validation == validateMove(h[o], h[o].turn, index)
       IN IF ~validation.valid
          THEN [heap |-> h, success |-> FALSE, code |-> validation.code,
                winner |-> Null]
          ELSE LET result == applyMove(h[o], index)
               IN [heap |-> [h EXCEPT ![o] = result.room],
                   success |-> TRUE, code |-> "ok", winner |-> result.winner]

applyMoveToRoom(h, m, roomId, socketId, index) ==
  IF m[roomId] = 0
  THEN [heap |-> h, success |-> FALSE, code |-> "ROOM_NOT_FOUND", winner |-> Null]
  ELSE LET o == m[roomId]
           playerRole == getPlayerRole(h, m, roomId, socketId)
       IN IF playerRole = Null
          THEN [heap |-> h, success |-> FALSE, code |-> "NOT_IN_ROOM", winner |-> Null]
          ELSE LET validation == validateMove(h[o], playerRole, index)
               IN IF ~validation.valid
                  THEN [heap |-> h, success |-> FALSE, code |-> validation.code,
                        winner |-> Null]
                  ELSE LET result == applyMove(h[o], index)
                       IN [heap |-> [h EXCEPT ![o] = result.room],
                           success |-> TRUE, code |-> "ok", winner |-> result.winner]

registerReplayVote(h, m, roomId, socketId) ==
  IF m[roomId] = 0
  THEN [heap |-> h, success |-> FALSE, code |-> "ROOM_NOT_FOUND", votes |-> 0]
  ELSE LET o == m[roomId]
       IN IF h[o].status /= "ended"
          THEN [heap |-> h, success |-> FALSE, code |-> "GAME_NOT_ENDED", votes |-> 0]
          ELSE IF socketId \in h[o].replayVotes
          THEN [heap |-> h, success |-> FALSE, code |-> "ALREADY_VOTED", votes |-> 0]
          ELSE [heap |-> [h EXCEPT ![o].replayVotes = @ \cup {socketId}],
                success |-> TRUE, code |-> "ok",
                votes |-> Cardinality(h[o].replayVotes \cup {socketId})]

\* resetRoom that always hands the opening move to X.
resetRoomTurnX(h, m, roomId) ==
  IF m[roomId] = 0 THEN [heap |-> h, room |-> 0]
  ELSE LET o == m[roomId]
           start == IF h[o].startingTurn = "X" THEN "O" ELSE "X"
       IN [heap |-> [h EXCEPT ![o].board = EmptyBoard,
                              ![o].startingTurn = start,
                              ![o].turn = "X",
                              ![o].replayVotes = {},
                              ![o].status = "playing"],
           room |-> o]

resetRoom(h, m, roomId) ==
  IF m[roomId] = 0 THEN [heap |-> h, room |-> 0]
  ELSE LET o == m[roomId]
           start == IF h[o].startingTurn = "X" THEN "O" ELSE "X"
       IN [heap |-> [h EXCEPT ![o].board = EmptyBoard,
                              ![o].startingTurn = start,
                              ![o].turn = start,
                              ![o].replayVotes = {},
                              ![o].status = "playing"],
           room |-> o]

\* removePlayer that leaves the emptied room in the Map.
removePlayerNoDelete(h, m, roomId, socketId) ==
  IF m[roomId] = 0
  THEN [heap |-> h, rooms |-> m,
        roomExists |-> FALSE, hadPlayers |-> FALSE, remainingPlayers |-> 0]
  ELSE LET o == m[roomId]
           playerIndex == findIndex(h[o].players, socketId)
           rest == splice(h[o].players, playerIndex)
       IN IF playerIndex = 0
          THEN [heap |-> h, rooms |-> m, roomExists |-> TRUE, hadPlayers |-> FALSE,
                remainingPlayers |-> Len(h[o].players)]
          ELSE [heap |-> [h EXCEPT ![o].players = rest,
                                   ![o].status = "waiting",
                                   ![o].board = EmptyBoard,
                                   ![o].turn = "X",
                                   ![o].replayVotes = {}],
                rooms |-> m,
                roomExists |-> TRUE, hadPlayers |-> TRUE,
                remainingPlayers |-> Len(rest)]

\* removePlayer that forgets to clear the replay votes.
removePlayerKeepVotes(h, m, roomId, socketId) ==
  IF m[roomId] = 0
  THEN [heap |-> h, rooms |-> m,
        roomExists |-> FALSE, hadPlayers |-> FALSE, remainingPlayers |-> 0]
  ELSE LET o == m[roomId]
           playerIndex == findIndex(h[o].players, socketId)
           rest == splice(h[o].players, playerIndex)
       IN IF playerIndex = 0
          THEN [heap |-> h, rooms |-> m, roomExists |-> TRUE, hadPlayers |-> FALSE,
                remainingPlayers |-> Len(h[o].players)]
          ELSE IF Len(rest) = 0
          THEN [heap |-> [h EXCEPT ![o].players = rest],
                rooms |-> [m EXCEPT ![roomId] = 0],
                roomExists |-> FALSE, hadPlayers |-> TRUE, remainingPlayers |-> 0]
          ELSE [heap |-> [h EXCEPT ![o].players = rest,
                                   ![o].status = "waiting",
                                   ![o].board = EmptyBoard,
                                   ![o].turn = "X"],
                rooms |-> m,
                roomExists |-> TRUE, hadPlayers |-> TRUE,
                remainingPlayers |-> Len(rest)]

\* removePlayer that leaves the marks of the interrupted game on the board.
removePlayerKeepBoard(h, m, roomId, socketId) ==
  IF m[roomId] = 0
  THEN [heap |-> h, rooms |-> m,
        roomExists |-> FALSE, hadPlayers |-> FALSE, remainingPlayers |-> 0]
  ELSE LET o == m[roomId]
           playerIndex == findIndex(h[o].players, socketId)
           rest == splice(h[o].players, playerIndex)
       IN IF playerIndex = 0
          THEN [heap |-> h, rooms |-> m, roomExists |-> TRUE, hadPlayers |-> FALSE,
                remainingPlayers |-> Len(h[o].players)]
          ELSE IF Len(rest) = 0
          THEN [heap |-> [h EXCEPT ![o].players = rest],
                rooms |-> [m EXCEPT ![roomId] = 0],
                roomExists |-> FALSE, hadPlayers |-> TRUE, remainingPlayers |-> 0]
          ELSE [heap |-> [h EXCEPT ![o].players = rest,
                                   ![o].status = "waiting",
                                   ![o].turn = "X",
                                   ![o].replayVotes = {}],
                rooms |-> m,
                roomExists |-> TRUE, hadPlayers |-> TRUE,
                remainingPlayers |-> Len(rest)]

\* removePlayer that leaves the status of the room as it was.
removePlayerKeepStatus(h, m, roomId, socketId) ==
  IF m[roomId] = 0
  THEN [heap |-> h, rooms |-> m,
        roomExists |-> FALSE, hadPlayers |-> FALSE, remainingPlayers |-> 0]
  ELSE LET o == m[roomId]
           playerIndex == findIndex(h[o].players, socketId)
           rest == splice(h[o].players, playerIndex)
       IN IF playerIndex = 0
          THEN [heap |-> h, rooms |-> m, roomExists |-> TRUE, hadPlayers |-> FALSE,
                remainingPlayers |-> Len(h[o].players)]
          ELSE IF Len(rest) = 0
          THEN [heap |-> [h EXCEPT ![o].players = rest],
                rooms |-> [m EXCEPT ![roomId] = 0],
                roomExists |-> FALSE, hadPlayers |-> TRUE, remainingPlayers |-> 0]
          ELSE [heap |-> [h EXCEPT ![o].players = rest,
                                   ![o].board = EmptyBoard,
                                   ![o].turn = "X",
                                   ![o].replayVotes = {}],
                rooms |-> m,
                roomExists |-> TRUE, hadPlayers |-> TRUE,
                remainingPlayers |-> Len(rest)]

removePlayer(h, m, roomId, socketId) ==
  IF m[roomId] = 0
  THEN [heap |-> h, rooms |-> m,
        roomExists |-> FALSE, hadPlayers |-> FALSE, remainingPlayers |-> 0]
  ELSE LET o == m[roomId]
           playerIndex == findIndex(h[o].players, socketId)
           rest == splice(h[o].players, playerIndex)
       IN IF playerIndex = 0
          THEN [heap |-> h, rooms |-> m, roomExists |-> TRUE, hadPlayers |-> FALSE,
                remainingPlayers |-> Len(h[o].players)]
          ELSE IF Len(rest) = 0
          THEN [heap |-> [h EXCEPT ![o].players = rest],
                rooms |-> [m EXCEPT ![roomId] = 0],
                roomExists |-> FALSE, hadPlayers |-> TRUE, remainingPlayers |-> 0]
          ELSE [heap |-> [h EXCEPT ![o].players = rest,
                                   ![o].status = "waiting",
                                   ![o].board = EmptyBoard,
                                   ![o].turn = "X",
                                   ![o].replayVotes = {}],
                rooms |-> m,
                roomExists |-> TRUE, hadPlayers |-> TRUE,
                remainingPlayers |-> Len(rest)]

findPlayerRooms(h, m, socketId) ==
  {r \in DOMAIN m : m[r] /= 0 /\ socketId \in memberIds(h[m[r]])}

\* getOpponentSocketId that returns the first player, whoever asks.
getOpponentSocketIdFirst(h, m, roomId, socketId) ==
  IF m[roomId] = 0 THEN 0
  ELSE LET players == h[m[roomId]].players
       IN IF Len(players) = 0 THEN 0 ELSE players[1].socketId

getOpponentSocketId(h, m, roomId, socketId) ==
  IF m[roomId] = 0 THEN 0
  ELSE LET players == h[m[roomId]].players
           others == {k \in 1..Len(players) : players[k].socketId /= socketId}
       IN IF others = {} THEN 0
          ELSE players[CHOOSE k \in others : \A k2 \in others : k <= k2].socketId


\* socket.join(roomId), socket.leave(roomId) and the leaveAll of a closing
\* socket.  Only connected sockets are delivered to, so the entry a join
\* on an already closed socket leaves in the adapter is not kept.
socketJoin(s, cl, c, roomId) ==
  IF c \in cl THEN s ELSE [s EXCEPT ![c] = @ \cup {roomId}]

socketLeave(s, c, roomId) == [s EXCEPT ![c] = @ \ {roomId}]

socketLeaveAll(s, c) == [s EXCEPT ![c] = {}]

\* io.to(roomId): the sockets that have joined the room.
ioTo(s, roomId) == {c \in DOMAIN s : roomId \in s[c]}

pendingCount == BagCardinality(pendingCreates) + BagCardinality(pendingJoins)
usedObjs == Cardinality(DOMAIN heap \ freeObjs(heap))

\* The page of a connection (main.js): of its gameState the roomId (0 for
\* null) and the status, and the screen it shows.
NewPage == [roomId |-> 0, status |-> "menu", screen |-> "menu-screen"]
NoPages == [c \in Conns |-> NewPage]
NoTraffic == [c \in Conns |-> << >>]

Init ==
  /\ heap = [o \in Objs |-> NoRoom]
  /\ rooms = [r \in RoomIds |-> 0]
  /\ pendingCreates = EmptyBag
  /\ pendingJoins = EmptyBag
  /\ closed = {}
  /\ subs = [c \in Conns |-> {}]
  /\ gameState = NoPages
  /\ toServer = NoTraffic
  /\ toClient = NoTraffic

\* ---------------------------------------------------------------------
\* socket-handler.js: one action per event handler; create_room and
\* join_room are split at their await.  For each handler an operator
\* gives the state it leaves and the code it answers with ("ok" when it
\* emits no error), and the action installs that state.
\* ---------------------------------------------------------------------

\* create_room up to `await bcrypt.hash': generateRoomId() yields roomId; a
\* taken id enters the while loop, whose assignment to the const roomId
\* throws, and the handler's catch reports INTERNAL_ERROR.
createRoomThrows(m, roomId) == m[roomId] /= 0

CreateRoomStartStep(c, passKey, roomId) ==
  /\ c \notin closed
  /\ IF createRoomThrows(rooms, roomId)
     THEN UNCHANGED serverVars
     ELSE /\ pendingCount < MaxPending
          /\ usedObjs + BagCardinality(pendingCreates) < Cardinality(DOMAIN heap)
          /\ pendingCreates' = pendingCreates (+)
               SetToBag({[socketId |-> c, roomId |-> roomId, passKey |-> passKey]})
          /\ UNCHANGED <<heap, rooms, pendingJoins, closed, subs>>

CreateRoomStart(c, passKey, roomId) ==
  /\ CreateRoomStartStep(c, passKey, roomId)
  /\ UNCHANGED clientVars

\* create_room from the resolution of bcrypt.hash to the end of the handler.
CreateRoomFinishStep(p) ==
  /\ BagIn(p, pendingCreates)
  /\ LET r == createRoomResume(heap, rooms, p.roomId, p.passKey, p.socketId)
     IN /\ rooms' = r.rooms
        /\ heap' = collect(r.heap, r.rooms, pendingJoins)
  /\ pendingCreates' = pendingCreates (-) SetToBag({p})
  /\ subs' = socketJoin(subs, closed, p.socketId, p.roomId)
  /\ UNCHANGED <<pendingJoins, closed>>

CreateRoomFinish(p) ==
  /\ CreateRoomFinishStep(p)
  /\ UNCHANGED clientVars

\* join_room up to `await bcrypt.compare': ROOM_NOT_FOUND is answered at
\* once, otherwise the call suspends holding the room object.
JoinRoomStartStep(c, roomId, passKey) ==
  /\ c \notin closed
  /\ IF rooms[roomId] = 0
     THEN UNCHANGED serverVars
     ELSE /\ pendingCount < MaxPending
          /\ pendingJoins' = pendingJoins (+)
               SetToBag({[socketId |-> c, roomId |-> roomId,
                          room |-> rooms[roomId], passKey |-> passKey]})
          /\ UNCHANGED <<heap, rooms, pendingCreates, closed, subs>>

JoinRoomStart(c, roomId, passKey) ==
  /\ JoinRoomStartStep(c, roomId, passKey)
  /\ UNCHANGED clientVars

\* join_room from the resolution of bcrypt.compare to the end of the
\* handler; getRoom(roomId) yields null when the Map entry is gone, and the
\* read of room.board then throws into the handler's catch.
joinRoomHandler(h, m, p) ==
  LET r == joinRoomResume(h[p.room], p.passKey, p.socketId)
  IN [heap |-> [h EXCEPT ![p.room] = r.room],
      code |-> IF ~r.success THEN r.code
               ELSE IF getRoom(m, p.roomId) = 0 THEN "INTERNAL_ERROR"
               ELSE "ok",
      role |-> r.role,
      alreadyJoined |-> r.alreadyJoined]

JoinRoomFinishStep(p) ==
  /\ BagIn(p, pendingJoins)
  /\ pendingJoins' = pendingJoins (-) SetToBag({p})
  /\ heap' = collect(joinRoomHandler(heap, rooms, p).heap, rooms, pendingJoins')
  /\ subs' = IF joinRoomResume(heap[p.room], p.passKey, p.socketId).success
             THEN socketJoin(subs, closed, p.socketId, p.roomId)
             ELSE subs
  /\ UNCHANGED <<rooms, pendingCreates, closed>>

JoinRoomFinish(p) ==
  /\ JoinRoomFinishStep(p)
  /\ UNCHANGED clientVars

makeMoveHandler(h, m, c, roomId, index) ==
  IF index < 0 \/ index > 8
  THEN [heap |-> h, success |-> FALSE, code |-> "INVALID_CELL", winner |-> Null]
  ELSE applyMoveToRoom(h, m, roomId, c, index)

MakeMove(c, roomId, index) ==
  /\ c \notin closed
  /\ heap' = makeMoveHandler(heap, rooms, c, roomId, index).heap
  /\ UNCHANGED <<rooms, pendingCreates, pendingJoins, closed, subs>>
  /\ UNCHANGED clientVars

\* replay_request that restarts the game on the first vote already.
replayRequestHandlerEager(h, m, c, roomId) ==
  LET r == registerReplayVote(h, m, roomId, c)
  IN IF r.success /\ r.votes >= 1
     THEN [heap |-> resetRoom(r.heap, m, roomId).heap, code |-> "ok",
           votes |-> r.votes, reset |-> TRUE]
     ELSE [heap |-> r.heap, code |-> r.code, votes |-> r.votes, reset |-> FALSE]

\* replay_request: registerReplayVote, then resetRoom when it returned 2.
replayRequestHandler(h, m, c, roomId) ==
  LET r == registerReplayVote(h, m, roomId, c)
  IN IF r.success /\ r.votes = 2
     THEN [heap |-> resetRoom(r.heap, m, roomId).heap, code |-> "ok",
           votes |-> r.votes, reset |-> TRUE]
     ELSE [heap |-> r.heap, code |-> r.code, votes |-> r.votes, reset |-> FALSE]

ReplayRequest(c, roomId) ==
  /\ c \notin closed
  /\ heap' = replayRequestHandler(heap, rooms, c, roomId).heap
  /\ UNCHANGED <<rooms, pendingCreates, pendingJoins, closed, subs>>
  /\ UNCHANGED clientVars

\* leave_room that tells the opponent without looking at hadPlayers.
leaveRoomHandlerNoCheck(h, m, c, roomId) ==
  LET opponentSocketId == getOpponentSocketId(h, m, roomId, c)
      result == removePlayer(h, m, roomId, c)
  IN [heap |-> result.heap, rooms |-> result.rooms,
      hadPlayers |-> result.hadPlayers,
      playerLeft |-> opponentSocketId]

\* leave_room: the opponent is looked up before removePlayer, and told
\* player_left (playerLeft: its socket id, 0 when nothing is sent) only if
\* the caller was removed.
leaveRoomHandler(h, m, c, roomId) ==
  LET opponentSocketId == getOpponentSocketId(h, m, roomId, c)
      result == removePlayer(h, m, roomId, c)
  IN [heap |-> result.heap, rooms |-> result.rooms,
      hadPlayers |-> result.hadPlayers,
      playerLeft |-> IF opponentSocketId /= 0 /\ result.hadPlayers
                     THEN opponentSocketId ELSE 0]

LeaveRoomStep(c, roomId) ==
  /\ c \notin closed
  /\ LET r == leaveRoomHandler(heap, rooms, c, roomId)
     IN /\ rooms' = r.rooms
        /\ heap' = collect(r.heap, r.rooms, pendingJoins)
  /\ subs' = socketLeave(subs, c, roomId)
  /\ UNCHANGED <<pendingCreates, pendingJoins, closed>>

LeaveRoom(c, roomId) ==
  /\ LeaveRoomStep(c, roomId)
  /\ UNCHANGED clientVars

\* The disconnect handler's loop over findPlayerRooms(socket.id); each
\* removePlayer touches only its own room, so the order is immaterial.
RECURSIVE removeFromAll(_, _, _, _)
removeFromAll(h, m, ids, socketId) ==
  IF ids = {} THEN [heap |-> h, rooms |-> m]
  ELSE LET roomId == CHOOSE r \in ids : \A r2 \in ids : r <= r2
           res == removePlayer(h, m, roomId, socketId)
       IN removeFromAll(res.heap, res.rooms, ids \ {roomId}, socketId)

DisconnectStep(c) ==
  /\ c \notin closed
  /\ closed' = closed \cup {c}
  /\ LET r == removeFromAll(heap, rooms, findPlayerRooms(heap, rooms, c), c)
     IN /\ rooms' = r.rooms
        /\ heap' = collect(r.heap, r.rooms, pendingJoins)
  /\ subs' = socketLeaveAll(subs, c)
  /\ UNCHANGED <<pendingCreates, pendingJoins>>

Disconnect(c) ==
  /\ DisconnectStep(c)
  /\ UNCHANGED clientVars

\* ---------------------------------------------------------------------
\* socket-handler.js: the messages a handler emits, in order.  A message
\* is [event, to, code, body]: `to' is the set of sockets it is addressed
\* to ({socket.id} for socket.emit and io.to(socketId), the sockets joined
\* to roomId for io.to(roomId)); a closed socket receives nothing.
\* ---------------------------------------------------------------------
message(event, to, code, body) ==
  [event |-> event, to |-> to, code |-> code, body |-> body]

errorTo(c, code) == message("error", {c}, code, <<>>)

gameStartTo(socketId, room, role) ==
  message("game_start", {socketId}, "ok", <<room.board, room.turn, role>>)

\* create_room up to the await: the catch of a throwing createRoom.
createRoomStartEmits(m, c, roomId) ==
  IF createRoomThrows(m, roomId) THEN << errorTo(c, "INTERNAL_ERROR") >> ELSE << >>

\* create_room after the await.
createRoomFinishEmits(p) ==
  << message("room_created", {p.socketId}, "ok", <<p.roomId>>) >>

\* join_room up to the await.
joinRoomStartEmits(m, c, roomId) ==
  IF m[roomId] = 0 THEN << errorTo(c, "ROOM_NOT_FOUND") >> ELSE << >>

\* join_room after the await; `room' is what getRoom(roomId) returns then.
joinRoomFinishEmits(h, m, p) ==
  LET r == joinRoomResume(h[p.room], p.passKey, p.socketId)
      h2 == [h EXCEPT ![p.room] = r.room]
      room == h2[getRoom(m, p.roomId)]
  IN IF ~r.success THEN << errorTo(p.socketId, r.code) >>
     ELSE IF getRoom(m, p.roomId) = 0 THEN << errorTo(p.socketId, "INTERNAL_ERROR") >>
     ELSE IF r.alreadyJoined THEN << gameStartTo(p.socketId, room, r.role) >>
     ELSE IF room.status = "playing"
     THEN [k \in 1..Len(room.players) |->
             gameStartTo(room.players[k].socketId, room, room.players[k].role)]
     ELSE << gameStartTo(p.socketId, room, r.role) >>

\* make_move that reports a rejected move with io.to(roomId).
makeMoveEmitsErrorToRoom(h, m, s, c, roomId, index) ==
  LET result == makeMoveHandler(h, m, c, roomId, index)
  IN IF ~result.success
     THEN << message("error", ioTo(s, roomId), result.code, <<>>) >>
     ELSE LET room == result.heap[m[roomId]]
          IN << message("board_update", ioTo(s, roomId), "ok",
                        <<room.board, room.turn, result.winner>>) >>

makeMoveEmits(h, m, s, c, roomId, index) ==
  LET result == makeMoveHandler(h, m, c, roomId, index)
  IN IF ~result.success THEN << errorTo(c, result.code) >>
     ELSE LET room == result.heap[m[roomId]]
          IN << message("board_update", ioTo(s, roomId), "ok",
                        <<room.board, room.turn, result.winner>>) >>

replayRequestEmits(h, m, s, c, roomId) ==
  LET result == registerReplayVote(h, m, roomId, c)
  IN IF ~result.success THEN << errorTo(c, result.code) >>
     ELSE << message("replay_vote", ioTo(s, roomId), "ok", <<result.votes>>) >>
          \o IF result.votes = 2
             THEN LET room == resetRoom(result.heap, m, roomId).heap[m[roomId]]
                  IN [k \in 1..Len(room.players) |->
                        gameStartTo(room.players[k].socketId, room, room.players[k].role)]
             ELSE << >>

leaveRoomEmits(h, m, c, roomId) ==
  LET to == leaveRoomHandler(h, m, c, roomId).playerLeft
  IN IF to /= 0 THEN << message("player_left", {to}, "ok", <<>>) >> ELSE << >>

\* The messages of the disconnect handler's loop, room after room.
RECURSIVE notifyAll(_, _, _, _)
notifyAll(h, m, ids, socketId) ==
  IF ids = {} THEN << >>
  ELSE LET roomId == CHOOSE r \in ids : \A r2 \in ids : r <= r2
           opponentSocketId == getOpponentSocketId(h, m, roomId, socketId)
           result == removePlayer(h, m, roomId, socketId)
       IN (IF opponentSocketId /= 0 /\ result.hadPlayers
           THEN << message("player_left", {opponentSocketId}, "ok", <<>>) >>
           ELSE << >>)
          \o notifyAll(result.heap, result.rooms, ids \ {roomId}, socketId)

disconnectEmits(h, m, c) == notifyAll(h, m, findPlayerRooms(h, m, c), c)

\* Cells the clients of the server model click on.
ServerIndexes == {-1} \cup (0..MaxCell) \cup {MaxIndex}
CreateKey == "abcd"

Next ==
  \/ \E c \in Conns, roomId \in RoomIds : CreateRoomStart(c, CreateKey, roomId)
  \/ \E p \in BagToSet(pendingCreates) : CreateRoomFinish(p)
  \/ \E c \in Conns, roomId \in RoomIds, passKey \in PassKeys :
       JoinRoomStart(c, roomId, passKey)
  \/ \E p \in BagToSet(pendingJoins) : JoinRoomFinish(p)
  \/ \E c \in Conns, roomId \in RoomIds, index \in ServerIndexes :
       MakeMove(c, roomId, index)
  \/ \E c \in Conns, roomId \in RoomIds : ReplayRequest(c, roomId)
  \/ \E c \in Conns, roomId \in RoomIds : LeaveRoom(c, roomId)
  \/ \E c \in Conns : Disconnect(c)

Spec == Init /\ [][Next]_vars


\* ---------------------------------------------------------------------
\* Event payloads as the handlers receive them.  A JavaScript value is
\* undefined, a string (its text and its length) or a number (held in
\* tenths, so that 1.5 is told from 1 and 2; NaN apart).  The key of room
\* r in the store is the six-character string roomIdText(r).
\* ---------------------------------------------------------------------
Undefined == [t |-> "undefined"]
jsString(text) == [t |-> "string", text |-> text, len |-> Len(text)]
jsNumber(tenths) == [t |-> "number", nan |-> FALSE, tenths |-> tenths]
NaN == [t |-> "number", nan |-> TRUE, tenths |-> 0]

\* !v
falsy(v) ==
  \/ v.t = "undefined"
  \/ v.t = "string" /\ v.len = 0
  \/ v.t = "number" /\ (v.nan \/ v.tenths = 0)

\* v < n and v > n for an integer n; every comparison with NaN is false.
jsLess(v, n) == ~v.nan /\ v.tenths < 10 * n
jsGreater(v, n) == ~v.nan /\ v.tenths > 10 * n

isInteger(v) == v.t = "number" /\ ~v.nan /\ v.tenths % 10 = 0

roomIdText(r) == [i \in 1..6 |-> r]

\* rooms.get(v): the id under which the store holds the string v, 0 if none.
roomKey(m, v) ==
  IF \E r \in DOMAIN m : v = jsString(roomIdText(r))
  THEN CHOOSE r \in DOMAIN m : v = jsString(roomIdText(r))
  ELSE 0

\* `data' of an event sent without argument, on which the destructuring
\* at the head of every handler throws.
NoPayload == [present |-> FALSE]

\* create_room up to the call of createRoom.
createRoomValidate(data) ==
  IF ~data.present THEN "INTERNAL_ERROR"
  ELSE IF \/ falsy(data.passKey)
          \/ data.passKey.t /= "string"
          \/ data.passKey.len < 4
          \/ data.passKey.len > 20
  THEN "INVALID_PASSKEY"
  ELSE "ok"

\* join_room up to the call of joinRoom.
joinRoomValidate(data) ==
  IF ~data.present THEN "INTERNAL_ERROR"
  ELSE IF \/ falsy(data.roomId)
          \/ data.roomId.t /= "string"
          \/ data.roomId.len /= 6
  THEN "INVALID_ROOM_ID"
  ELSE IF falsy(data.passKey) \/ data.passKey.t /= "string"
  THEN "INVALID_PASSKEY"
  ELSE "ok"

\* make_move up to the call of applyMoveToRoom.
makeMoveValidate(data) ==
  IF ~data.present THEN "INTERNAL_ERROR"
  ELSE IF falsy(data.roomId) \/ data.roomId.t /= "string"
  THEN "INVALID_ROOM_ID"
  ELSE IF \/ data.index.t /= "number"
          \/ jsLess(data.index, 0)
          \/ jsGreater(data.index, 8)
  THEN "INVALID_CELL"
  ELSE "ok"

\* validateMove with an index that is a number but no integer: neither
\* index < 0 nor index > 8 need hold, and room.board[index] is undefined,
\* which is not null.
validateMoveNonInteger(room, playerRole, index) ==
  IF room.status /= "playing" THEN "GAME_NOT_STARTED"
  ELSE IF room.turn /= playerRole THEN "NOT_YOUR_TURN"
  ELSE IF jsLess(index, 0) \/ jsGreater(index, 8) THEN "INVALID_CELL"
  ELSE "CELL_TAKEN"

\* The answer to a create_room event: the code sent back at once, or
\* "pending" when createRoom is called and awaits bcrypt.hash.
createRoomAnswer(h, data) ==
  LET v == createRoomValidate(data)
  IN [code |-> IF v = "ok" THEN "pending" ELSE v, called |-> v = "ok", heap |-> h]

\* The answer to a join_room event, joinRoom running to its end at once.
joinRoomAnswer(h, m, c, data) ==
  LET v == joinRoomValidate(data)
  IN IF v /= "ok" THEN [code |-> v, called |-> FALSE, heap |-> h]
     ELSE IF roomKey(m, data.roomId) = 0
     THEN [code |-> "ROOM_NOT_FOUND", called |-> TRUE, heap |-> h]
     ELSE LET r == joinRoom(h, m, roomKey(m, data.roomId), data.passKey.text, c)
          IN [code |-> r.code, called |-> TRUE, heap |-> r.heap]

\* The answer to a make_move event.
makeMoveAnswer(h, m, c, data) ==
  LET v == makeMoveValidate(data)
      roomId == roomKey(m, data.roomId)
  IN IF v /= "ok" THEN [code |-> v, called |-> FALSE, heap |-> h]
     ELSE IF roomId = 0 \/ m[roomId] = 0
     THEN [code |-> "ROOM_NOT_FOUND", called |-> TRUE, heap |-> h]
     ELSE IF isInteger(data.index)
     THEN LET r == makeMoveHandler(h, m, c, roomId, data.index.tenths \div 10)
          IN [code |-> r.code, called |-> TRUE, heap |-> r.heap]
     ELSE LET playerRole == getPlayerRole(h, m, roomId, c)
          IN [code |-> IF playerRole = Null THEN "NOT_IN_ROOM"
                       ELSE validateMoveNonInteger(h[m[roomId]], playerRole,
                                                   data.index),
              called |-> TRUE, heap |-> h]

\* The values clients put in the fields of a payload.
PassKeyValues ==
  {Undefined, jsNumber(12340), jsString(""), jsString("abc"),
   jsString("abcdefghijklmnopqrstu")} \cup {jsString(k) : k \in PassKeys}
RoomIdValues(m) ==
  {Undefined, jsNumber(10), jsString(<<>>), jsString(<<1, 1, 1>>)}
    \cup {jsString(roomIdText(r)) : r \in DOMAIN m}
IndexValues ==
  {Undefined, jsString("4"), NaN, jsNumber(-10), jsNumber(15), jsNumber(85)}
    \cup {jsNumber(10 * i) : i \in 0..MaxIndex}

CreateRoomPayloads ==
  {NoPayload} \cup {[present |-> TRUE, passKey |-> k] : k \in PassKeyValues}
JoinRoomPayloads(m) ==
  {NoPayload} \cup {[present |-> TRUE, roomId |-> r, passKey |-> k] :
                      r \in RoomIdValues(m), k \in PassKeyValues}
MakeMovePayloads(m) ==
  {NoPayload} \cup {[present |-> TRUE, roomId |-> r, index |-> i] :
                      r \in RoomIdValues(m), i \in IndexValues}

\* ---------------------------------------------------------------------
\* The room manager called directly (its exported functions in any order)
\* on one started game: the room of createRoom("abcd", 1) followed by
\* joinRoom(1, "abcd", 2).  Any caller, member or not, with any index, at
\* any time; resetRoom and removePlayer are called without their handlers.
\* ---------------------------------------------------------------------
StartedRoom == joinRoomResume(newRoom(1, "abcd", 1), "abcd", 2).room

GameHeap == [o \in {1} |-> StartedRoom]
GameRooms == [r \in RoomIds |-> IF r = 1 THEN 1 ELSE 0]

InitGame ==
  /\ heap = GameHeap
  /\ rooms = GameRooms
  /\ pendingCreates = EmptyBag
  /\ pendingJoins = EmptyBag
  /\ closed = {}
  /\ subs = [c \in Conns |-> IF c \in memberIds(StartedRoom) THEN {1} ELSE {}]
  /\ gameState = [c \in Conns |->
                    IF c \in memberIds(StartedRoom)
                    THEN [roomId |-> 1, status |-> "playing", screen |-> "game-screen"]
                    ELSE NewPage]
  /\ toServer = NoTraffic
  /\ toClient = NoTraffic

ApplyMoveToRoom(c, roomId, index) ==
  /\ heap' = applyMoveToRoom(heap, rooms, roomId, c, index).heap
  /\ UNCHANGED <<rooms, pendingCreates, pendingJoins, closed, subs>>
  /\ UNCHANGED clientVars

RegisterReplayVote(c, roomId) ==
  /\ heap' = registerReplayVote(heap, rooms, roomId, c).heap
  /\ UNCHANGED <<rooms, pendingCreates, pendingJoins, closed, subs>>
  /\ UNCHANGED clientVars

ResetRoom(roomId) ==
  /\ heap' = resetRoom(heap, rooms, roomId).heap
  /\ UNCHANGED <<rooms, pendingCreates, pendingJoins, closed, subs>>
  /\ UNCHANGED clientVars

RemovePlayer(c, roomId) ==
  /\ LET r == removePlayer(heap, rooms, roomId, c)
     IN /\ rooms' = r.rooms
        /\ heap' = collect(r.heap, r.rooms, pendingJoins)
  /\ UNCHANGED <<pendingCreates, pendingJoins, closed, subs>>
  /\ UNCHANGED clientVars

NextGame ==
  \/ \E c \in Conns, roomId \in RoomIds, index \in Indexes :
       ApplyMoveToRoom(c, roomId, index)
  \/ \E c \in Conns, roomId \in RoomIds : RegisterReplayVote(c, roomId)
  \/ \E roomId \in RoomIds : ResetRoom(roomId)
  \/ \E c \in Conns, roomId \in RoomIds : RemovePlayer(c, roomId)

SpecGame == InitGame /\ [][NextGame]_vars


\* ---------------------------------------------------------------------
\* The lobby: the server with several room ids and room objects, and
\* NumLobbyConns clients that create, join, leave and disconnect and open
\* their games on the cells 0..LobbyCell (no game ends there).
\* ---------------------------------------------------------------------
LobbyRoomIds == 2
LobbyObjs == 2
LobbyCell == 1
NumLobbyConns == 2

LobbyIds == 1..LobbyRoomIds
LobbyConns == 1..NumLobbyConns
LobbyIndexes == 0..LobbyCell

InitLobby ==
  /\ heap = [o \in 1..LobbyObjs |-> NoRoom]
  /\ rooms = [r \in LobbyIds |-> 0]
  /\ pendingCreates = EmptyBag
  /\ pendingJoins = EmptyBag
  /\ closed = {}
  /\ subs = [c \in Conns |-> {}]
  /\ gameState = NoPages
  /\ toServer = NoTraffic
  /\ toClient = NoTraffic

NextLobby ==
  \/ \E c \in LobbyConns, roomId \in LobbyIds : CreateRoomStart(c, CreateKey, roomId)
  \/ \E p \in BagToSet(pendingCreates) : CreateRoomFinish(p)
  \/ \E c \in LobbyConns, roomId \in LobbyIds, passKey \in PassKeys :
       JoinRoomStart(c, roomId, passKey)
  \/ \E p \in BagToSet(pendingJoins) : JoinRoomFinish(p)
  \/ \E c \in LobbyConns, roomId \in LobbyIds, index \in LobbyIndexes :
       MakeMove(c, roomId, index)
  \/ \E c \in LobbyConns, roomId \in LobbyIds : LeaveRoom(c, roomId)
  \/ \E c \in LobbyConns : Disconnect(c)

SpecLobby == InitLobby /\ [][NextLobby]_vars

\* ---------------------------------------------------------------------
\* The server with the pages of this repository as its clients.  A page
\* creates, joins and leaves through its buttons (it plays no move here);
\* what it emits waits in toServer until the server handles it, and what
\* the server emits to it waits in toClient until its callback runs, both
\* in order and at most MaxQueue at a time.
\* ---------------------------------------------------------------------
MaxQueue == 1

event(name, roomId, passKey) == [event |-> name, roomId |-> roomId, passKey |-> passKey]

\* The emitted messages appended to the queues of the open sockets they
\* are addressed to.
send(tc, cl, emits) ==
  [d \in DOMAIN tc |->
     IF d \in cl THEN << >>
     ELSE LET toD(msg) == d \in msg.to IN tc[d] \o SelectSeq(emits, toD)]

canSend(emits) ==
  \A d \in DOMAIN toClient : Len(send(toClient, closed, emits)[d]) <= MaxQueue

\* The create form is submitted.
handleCreateRoom(c) ==
  /\ c \notin closed
  /\ gameState[c].screen = "menu-screen"
  /\ Len(toServer[c]) < MaxQueue
  /\ toServer' = [toServer EXCEPT ![c] = Append(@, event("create_room", 0, CreateKey))]
  /\ UNCHANGED <<gameState, toClient>>
  /\ UNCHANGED serverVars

\* The join form is submitted.
handleJoinRoom(c, roomId, passKey) ==
  /\ c \notin closed
  /\ gameState[c].screen = "menu-screen"
  /\ Len(toServer[c]) < MaxQueue
  /\ gameState' = [gameState EXCEPT ![c].roomId = roomId]
  /\ toServer' = [toServer EXCEPT ![c] = Append(@, event("join_room", roomId, passKey))]
  /\ UNCHANGED toClient
  /\ UNCHANGED serverVars

\* The leave button of the game screen.
handleLeaveRoom(c) ==
  /\ c \notin closed
  /\ gameState[c].screen = "game-screen"
  /\ Len(toServer[c]) < MaxQueue
  /\ toServer' = [toServer EXCEPT
                    ![c] = Append(@, event("leave_room", gameState[c].roomId, ""))]
  /\ gameState' = [gameState EXCEPT ![c] = NewPage]
  /\ UNCHANGED toClient
  /\ UNCHANGED serverVars

handleRoomCreated(page, msg) ==
  [page EXCEPT !.roomId = msg.body[1], !.status = "waiting", !.screen = "lobby-screen"]

handleGameStart(page, msg) ==
  [page EXCEPT !.status = "playing", !.screen = "game-screen"]

handlePlayerLeft(page, msg) ==
  [page EXCEPT !.status = "waiting", !.roomId = 0, !.screen = "menu-screen"]

handleError(page, msg) == page

\* The callback of the page for the oldest message waiting for it.
Receive(c) ==
  /\ c \notin closed
  /\ toClient[c] /= << >>
  /\ LET msg == Head(toClient[c])
     IN gameState' = [gameState EXCEPT ![c] =
          IF msg.event = "room_created" THEN handleRoomCreated(@, msg)
          ELSE IF msg.event = "game_start" THEN handleGameStart(@, msg)
          ELSE IF msg.event = "player_left" THEN handlePlayerLeft(@, msg)
          ELSE handleError(@, msg)]
  /\ toClient' = [toClient EXCEPT ![c] = Tail(@)]
  /\ UNCHANGED toServer
  /\ UNCHANGED serverVars

\* The server takes the oldest event of socket c.
OnCreateRoom(c, roomId) ==
  /\ toServer[c] /= << >>
  /\ Head(toServer[c]).event = "create_room"
  /\ CreateRoomStartStep(c, Head(toServer[c]).passKey, roomId)
  /\ canSend(createRoomStartEmits(rooms, c, roomId))
  /\ toClient' = send(toClient, closed, createRoomStartEmits(rooms, c, roomId))
  /\ toServer' = [toServer EXCEPT ![c] = Tail(@)]
  /\ UNCHANGED gameState

OnCreateRoomResume(p) ==
  /\ CreateRoomFinishStep(p)
  /\ canSend(createRoomFinishEmits(p))
  /\ toClient' = send(toClient, closed, createRoomFinishEmits(p))
  /\ UNCHANGED <<gameState, toServer>>

OnJoinRoom(c) ==
  /\ toServer[c] /= << >>
  /\ Head(toServer[c]).event = "join_room"
  /\ JoinRoomStartStep(c, Head(toServer[c]).roomId, Head(toServer[c]).passKey)
  /\ canSend(joinRoomStartEmits(rooms, c, Head(toServer[c]).roomId))
  /\ toClient' = send(toClient, closed,
                      joinRoomStartEmits(rooms, c, Head(toServer[c]).roomId))
  /\ toServer' = [toServer EXCEPT ![c] = Tail(@)]
  /\ UNCHANGED gameState

OnJoinRoomResume(p) ==
  /\ JoinRoomFinishStep(p)
  /\ canSend(joinRoomFinishEmits(heap, rooms, p))
  /\ toClient' = send(toClient, closed, joinRoomFinishEmits(heap, rooms, p))
  /\ UNCHANGED <<gameState, toServer>>

\* leave_room; with roomId null the handler returns at once.
OnLeaveRoom(c) ==
  /\ toServer[c] /= << >>
  /\ Head(toServer[c]).event = "leave_room"
  /\ IF Head(toServer[c]).roomId = 0
     THEN /\ c \notin closed
          /\ UNCHANGED serverVars
          /\ UNCHANGED toClient
     ELSE /\ LeaveRoomStep(c, Head(toServer[c]).roomId)
          /\ canSend(leaveRoomEmits(heap, rooms, c, Head(toServer[c]).roomId))
          /\ toClient' = send(toClient, closed,
                              leaveRoomEmits(heap, rooms, c, Head(toServer[c]).roomId))
  /\ toServer' = [toServer EXCEPT ![c] = Tail(@)]
  /\ UNCHANGED gameState

\* The page is closed, its state gone with it: the socket drops once what
\* it emitted has been handled, and the server runs its disconnect handler.
OnDisconnect(c) ==
  /\ toServer[c] = << >>
  /\ DisconnectStep(c)
  /\ canSend(disconnectEmits(heap, rooms, c))
  /\ toClient' = send(toClient, closed \cup {c}, disconnectEmits(heap, rooms, c))
  /\ gameState' = [gameState EXCEPT ![c] = NewPage]
  /\ UNCHANGED toServer

NextClient ==
  \/ \E c \in LobbyConns : handleCreateRoom(c)
  \/ \E c \in LobbyConns, roomId \in RoomIds : handleJoinRoom(c, roomId, CreateKey)
  \/ \E c \in LobbyConns : handleLeaveRoom(c)
  \/ \E c \in LobbyConns : Receive(c)
  \/ \E c \in LobbyConns, roomId \in RoomIds : OnCreateRoom(c, roomId)
  \/ \E p \in BagToSet(pendingCreates) : OnCreateRoomResume(p)
  \/ \E c \in LobbyConns : OnJoinRoom(c)
  \/ \E p \in BagToSet(pendingJoins) : OnJoinRoomResume(p)
  \/ \E c \in LobbyConns : OnLeaveRoom(c)
  \/ \E c \in LobbyConns : OnDisconnect(c)

SpecClient == Init /\ [][NextClient]_vars


\* =====================================================================
\* Properties
\*
\* A handler or exported function is deterministic in the state and its
\* arguments, and its action installs exactly the state its operator
\* computes.  A statement about "every call" is therefore checked as an
\* invariant that applies the operator, in every reachable state, to every
\* argument of the bounded input sets.
\* =====================================================================

\* The eight lines of the 3x3 grid, by arithmetic on the cell numbers.
GridLines ==
  {{3 * r, 3 * r + 1, 3 * r + 2} : r \in 0..2}
    \cup {{k, k + 3, k + 6} : k \in 0..2}
    \cup {{0, 4, 8}, {2, 4, 6}}

hasLine(board, role) == \E l \in GridLines : \A i \in l : board[i] = role
isFull(board) == \A i \in Cells : board[i] /= Null

\* C1: applyMoveToRoom changes a room only when the room is 'playing', the
\* caller is a member whose role equals room.turn, index is in 0..8 and
\* board[index] is empty; for an existing room and a member caller every
\* other case returns exactly one error, the first failing check in the
\* order GAME_NOT_STARTED, NOT_YOUR_TURN, INVALID_CELL, CELL_TAKEN.
C1_MoveValidation ==
  \A c \in Conns, roomId \in RoomIds, index \in Indexes :
    LET r == applyMoveToRoom(heap, rooms, roomId, c, index)
        exists == rooms[roomId] /= 0
        room == heap[rooms[roomId]]
        member == exists /\ c \in memberIds(room)
        role == room.players[CHOOSE k \in 1..Len(room.players) :
                               room.players[k].socketId = c].role
        expected ==
          IF room.status /= "playing" THEN "GAME_NOT_STARTED"
          ELSE IF role /= room.turn THEN "NOT_YOUR_TURN"
          ELSE IF index \notin 0..8 THEN "INVALID_CELL"
          ELSE IF room.board[index] /= Null THEN "CELL_TAKEN"
          ELSE "ok"
    IN /\ member => /\ r.code = expected
                    /\ r.success <=> (expected = "ok")
                    /\ (expected /= "ok") => r.heap = heap
       /\ (r.heap /= heap) => member /\ expected = "ok"

\* A member whose turn it is hits an occupied cell and gets CELL_TAKEN.
C1_Witness ==
  \E c \in Conns, roomId \in RoomIds, index \in Cells :
    /\ rooms[roomId] /= 0
    /\ heap[rooms[roomId]].status = "playing"
    /\ getPlayerRole(heap, rooms, roomId, c) = heap[rooms[roomId]].turn
    /\ heap[rooms[roomId]].board[index] /= Null
    /\ applyMoveToRoom(heap, rooms, roomId, c, index).code = "CELL_TAKEN"

\* C2: after every successful applyMoveToRoom exactly one board cell
\* differs from the pre-move board, that cell went from empty to the
\* mover's role, the other eight cells are unchanged, and room.turn
\* switched to the other role if and only if the move produced no outcome
\* (on a win or draw turn keeps the mover's role).
C2_MoveFrame ==
  \A c \in Conns, roomId \in RoomIds, index \in Indexes :
    LET r == applyMoveToRoom(heap, rooms, roomId, c, index)
    IN r.success =>
         LET o == rooms[roomId]
             role == getPlayerRole(heap, rooms, roomId, c)
             changed == {i \in Cells : r.heap[o].board[i] /= heap[o].board[i]}
         IN /\ DOMAIN r.heap[o].board = Cells
            /\ Cardinality(changed) = 1
            /\ \A i \in changed :
                 heap[o].board[i] = Null /\ r.heap[o].board[i] = role
            /\ heap[o].turn = role
            /\ (r.heap[o].turn /= role) <=> (r.winner = Null)
            /\ r.heap[o].turn \in {"X", "O"}

\* A won game whose turn still names the winner: the last move kept it.
C2_Witness ==
  \E o \in DOMAIN heap :
    /\ heap[o].status = "ended"
    /\ hasLine(heap[o].board, heap[o].turn)

\* The moves X0, O1, X4, O2, X8 played from the started game.
ScenarioMoves ==
  << [c |-> 1, index |-> 0], [c |-> 2, index |-> 1], [c |-> 1, index |-> 4],
     [c |-> 2, index |-> 2], [c |-> 1, index |-> 8] >>

RECURSIVE playMoves(_, _, _)
playMoves(r, moves, k) ==
  IF k > Len(moves) THEN r
  ELSE LET n == applyMoveToRoom(r.heap, GameRooms, 1, moves[k].c, moves[k].index)
       IN IF n.success THEN playMoves(n, moves, k + 1)
          ELSE [n EXCEPT !.code = "failed"]

\* C3: a successful move sets status 'ended' and returns the mover's role
\* exactly when the post-move board holds a complete line of the mover's
\* marks (also when that move fills the ninth cell); it sets 'ended' and
\* returns 'draw' exactly when the post-move board is full with no complete
\* line; otherwise status stays 'playing' and the outcome is null.  The
\* sequence X0, O1, X4, O2, X8 ends with winner X.
C3_Outcome ==
  /\ \A c \in Conns, roomId \in RoomIds, index \in Indexes :
       LET r == applyMoveToRoom(heap, rooms, roomId, c, index)
       IN r.success =>
            LET post == r.heap[rooms[roomId]]
                role == getPlayerRole(heap, rooms, roomId, c)
                line == hasLine(post.board, role)
                draw == /\ isFull(post.board)
                        /\ ~hasLine(post.board, "X")
                        /\ ~hasLine(post.board, "O")
            IN /\ (r.winner = role /\ post.status = "ended") <=> line
               /\ (r.winner = "draw" /\ post.status = "ended") <=> draw
               /\ (~line /\ ~draw) => (r.winner = Null /\ post.status = "playing")
               /\ r.winner \in {role, "draw", Null}
  /\ LET end == playMoves([heap |-> GameHeap, success |-> TRUE, code |-> "ok",
                           winner |-> Null], ScenarioMoves, 1)
     IN /\ end.code = "ok"
        /\ end.winner = "X"
        /\ end.heap[1].status = "ended"

\* A game won by the move that filled the ninth cell.
C3_Witness ==
  \E o \in DOMAIN heap :
    /\ heap[o].status = "ended"
    /\ isFull(heap[o].board)
    /\ hasLine(heap[o].board, heap[o].turn)


\* Scenario E: the scenario game, then the replay votes of both members and
\* the resetRoom that follows the second one.
ScenarioReplay ==
  LET end == playMoves([heap |-> GameHeap, success |-> TRUE, code |-> "ok",
                        winner |-> Null], ScenarioMoves, 1)
      v1 == registerReplayVote(end.heap, GameRooms, 1, 1)
      v2 == registerReplayVote(v1.heap, GameRooms, 1, 2)
  IN [votes |-> v2.votes, room |-> resetRoom(v2.heap, GameRooms, 1).heap[1]]

\* C7: resetRoom on an ended room yields an all-empty board, startingTurn
\* flipped to the other role, turn equal to the new startingTurn, empty
\* replayVotes, status 'playing' and unchanged players; on a freshly
\* created room the first replay makes O the opener.
C7_ResetRoom ==
  /\ \A roomId \in RoomIds :
       (rooms[roomId] /= 0 /\ heap[rooms[roomId]].status = "ended") =>
         LET pre == heap[rooms[roomId]]
             post == resetRoom(heap, rooms, roomId).heap[rooms[roomId]]
         IN /\ \A i \in Cells : post.board[i] = Null
            /\ DOMAIN post.board = Cells
            /\ post.startingTurn \in {"X", "O"} \ {pre.startingTurn}
            /\ post.turn = post.startingTurn
            /\ post.replayVotes = {}
            /\ post.status = "playing"
            /\ post.players = pre.players
  /\ StartedRoom.startingTurn = "X"
  /\ ScenarioReplay.votes = 2
  /\ ScenarioReplay.room.startingTurn = "O"
  /\ ScenarioReplay.room.turn = "O"
  /\ ScenarioReplay.room.board = EmptyBoard

\* An ended game that O opened: a replay has happened and the next
\* resetRoom finds the room ended.
C7_Witness ==
  \E o \in DOMAIN heap :
    /\ heap[o].status = "ended"
    /\ heap[o].startingTurn = "O"
    /\ Len(heap[o].players) = 2

\* C8: no call to registerReplayVote, by any connection in any reachable
\* room state, leaves replayVotes with more than 2 elements, the bound
\* being enforced by registerReplayVote itself and not by the caller's
\* later resetRoom; a connection already in replayVotes gets ALREADY_VOTED
\* with the set unchanged.
C8_VoteBound ==
  \A c \in Conns, roomId \in RoomIds :
    rooms[roomId] /= 0 =>
      LET r == registerReplayVote(heap, rooms, roomId, c)
          o == rooms[roomId]
      IN /\ Cardinality(r.heap[o].replayVotes) <= 2
         /\ (c \in heap[o].replayVotes) =>
              (r.code = "ALREADY_VOTED" /\ ~r.success /\ r.heap = heap)


\* Rooms of the Map, as roomIds.
liveIds == {r \in DOMAIN rooms : rooms[r] /= 0}

\* C4: in every reachable state, under any interleaving of create_room,
\* join_room, leave_room and disconnect events (several joinRoom calls
\* suspended at the pass-key comparison included), every room in the store
\* has at most 2 entries in players.
C4_AtMostTwoPlayers ==
  \A r \in liveIds : Len(heap[rooms[r]].players) <= 2

\* A full room with a joinRoom of a third connection, carrying the right
\* key, still suspended at bcrypt.compare on it.
C4_Witness ==
  \E r \in liveIds :
    /\ Len(heap[rooms[r]].players) = 2
    /\ \E p \in BagToSet(pendingJoins) :
         /\ p.room = rooms[r]
         /\ p.socketId \notin memberIds(heap[rooms[r]])
         /\ bcryptCompare(p.passKey, heap[rooms[r]].passKeyHash)

\* C9: in every reachable state a room whose replayVotes is non-empty has
\* status 'ended'; every transition out of 'ended' (resetRoom, or
\* removePlayer leaving one member) leaves replayVotes empty; and
\* registerReplayVote on a room that is not ended fails with GAME_NOT_ENDED.
C9_VotesOnlyWhenEnded ==
  \A r \in liveIds :
    LET o == rooms[r]
    IN /\ (heap[o].replayVotes /= {}) => heap[o].status = "ended"
       /\ (heap[o].status = "ended") =>
            /\ resetRoom(heap, rooms, r).heap[o].replayVotes = {}
            /\ \A c \in memberIds(heap[o]) :
                 LET left == removePlayer(heap, rooms, r, c)
                 IN left.rooms[r] /= 0 =>
                      /\ left.heap[o].status = "waiting"
                      /\ left.heap[o].replayVotes = {}
       /\ (heap[o].status /= "ended") =>
            \A c \in Conns :
              LET v == registerReplayVote(heap, rooms, r, c)
              IN v.code = "GAME_NOT_ENDED" /\ ~v.success /\ v.heap = heap

\* An ended game with a replay vote cast.
C9_Witness ==
  \E r \in liveIds :
    /\ heap[rooms[r]].status = "ended"
    /\ heap[rooms[r]].replayVotes /= {}

\* C10: in every reachable state every room present in the store has at
\* least one member: the removePlayer that removes the last member deletes
\* the room in the same step, for leave_room and for disconnect alike.
C10_NoEmptyRoom ==
  /\ \A r \in liveIds : Len(heap[rooms[r]].players) >= 1
  /\ \A r \in liveIds, c \in Conns :
       (memberIds(heap[rooms[r]]) = {c}) => removePlayer(heap, rooms, r, c).rooms[r] = 0

\* A room object emptied and dropped from the Map (a suspended joinRoom
\* still holds it), after a connection disconnected.
C10_Witness ==
  /\ closed /= {}
  /\ \E o \in DOMAIN heap :
       /\ heap[o].status /= "free"
       /\ heap[o].players = <<>>
       /\ \A r \in DOMAIN rooms : rooms[r] /= o

\* C5: every change of a live room's status is waiting -> playing by a join
\* that brings membership to 2, playing -> ended by a successful move that
\* produces a winner or a draw, ended -> playing by resetRoom after the
\* second replay vote, or any status -> waiting by a removePlayer that
\* leaves exactly one member; rooms are created 'waiting'; resetRoom is
\* never applied to a room that is not ended.
C5_StatusTransitions ==
  [][\A r \in DOMAIN rooms :
       LET o == rooms[r]
           n == rooms'[r]
       IN /\ (n /= 0 /\ n /= o) => heap'[n].status = "waiting"
          /\ (o /= 0) =>
               \A c \in Conns :
                 replayRequestHandler(heap, rooms, c, r).reset => heap[o].status = "ended"
          /\ (o /= 0 /\ n = o /\ heap'[o].status /= heap[o].status) =>
               \/ /\ heap[o].status = "waiting" /\ heap'[o].status = "playing"
                  /\ Len(heap[o].players) = 1 /\ Len(heap'[o].players) = 2
                  /\ \E p \in BagToSet(pendingJoins) : p.room = o /\ JoinRoomFinish(p)
               \/ /\ heap[o].status = "playing" /\ heap'[o].status = "ended"
                  /\ \E c \in Conns, index \in Cells :
                       /\ MakeMove(c, r, index)
                       /\ makeMoveHandler(heap, rooms, c, r, index).success
                       /\ makeMoveHandler(heap, rooms, c, r, index).winner /= Null
               \/ /\ heap[o].status = "ended" /\ heap'[o].status = "playing"
                  /\ \E c \in Conns :
                       /\ ReplayRequest(c, r)
                       /\ Cardinality(heap[o].replayVotes \cup {c}) = 2
                       /\ c \notin heap[o].replayVotes
               \/ /\ heap'[o].status = "waiting"
                  /\ Len(heap[o].players) = 2 /\ Len(heap'[o].players) = 1
                  /\ \E c \in Conns : LeaveRoom(c, r) \/ Disconnect(c)]_vars

\* A replayed game in progress: the room has gone waiting -> playing ->
\* ended -> playing.
C5_Witness ==
  \E r \in liveIds :
    /\ heap[rooms[r]].status = "playing"
    /\ heap[rooms[r]].startingTurn = "O"

\* C6: a room goes from 'ended' back to 'playing' only in a state where
\* each of its two current members has cast a replay vote since the game
\* ended; votes of connections that are not members never count.
C6_ReplayNeedsBothMembers ==
  [][\A r \in DOMAIN rooms :
       LET o == rooms[r]
       IN (/\ o /= 0
           /\ rooms'[r] = o
           /\ heap[o].status = "ended"
           /\ heap'[o].status = "playing")
          => \E c \in Conns :
               /\ ReplayRequest(c, r)
               /\ heap[o].replayVotes \cup {c} = memberIds(heap[o])]_vars

\* C11: removePlayer of a member from a 2-member room, whatever the room's
\* status, leaves a room with exactly the other member, status 'waiting',
\* an all-empty board, turn X and empty replayVotes; removePlayer of the
\* only member of a 1-member room deletes the room from the store.
C11_RemovePlayer ==
  \A r \in liveIds :
    \A c \in memberIds(heap[rooms[r]]) :
      LET o == rooms[r]
          pre == heap[o]
          res == removePlayer(heap, rooms, r, c)
          post == res.heap[o]
      IN /\ res.hadPlayers
         /\ (Len(pre.players) = 2) =>
              /\ res.rooms = rooms
              /\ res.roomExists /\ res.remainingPlayers = 1
              /\ Len(post.players) = 1
              /\ post.players[1] \in {pre.players[1], pre.players[2]}
              /\ post.players[1].socketId /= c
              /\ post.status = "waiting"
              /\ DOMAIN post.board = Cells
              /\ \A i \in Cells : post.board[i] = Null
              /\ post.turn = "X"
              /\ post.replayVotes = {}
         /\ (Len(pre.players) = 1) =>
              /\ res.rooms[r] = 0
              /\ ~res.roomExists /\ res.remainingPlayers = 0

\* The room of the started game after its creator was removed: the second
\* member alone, waiting.
C11_Witness ==
  \E r \in liveIds :
    /\ heap[rooms[r]].status = "waiting"
    /\ Len(heap[rooms[r]].players) = 1
    /\ heap[rooms[r]].players[1].role = "O"

\* C12: removePlayer (and the leave_room event) for a connection that is
\* not a member of the named room changes nothing: players, board, turn,
\* status and replayVotes of that room and of every other room are
\* unchanged, the result reports hadPlayers=false, and no player_left is
\* sent to anyone.
C12_LeaveNonMember ==
  \A r \in DOMAIN rooms, c \in Conns :
    (rooms[r] = 0 \/ c \notin memberIds(heap[rooms[r]])) =>
      LET res == removePlayer(heap, rooms, r, c)
          lv == leaveRoomHandler(heap, rooms, c, r)
      IN /\ res.heap = heap /\ res.rooms = rooms
         /\ ~res.hadPlayers
         /\ res.roomExists <=> (rooms[r] /= 0)
         /\ lv.heap = heap /\ lv.rooms = rooms
         /\ collect(lv.heap, lv.rooms, pendingJoins) = heap
         /\ lv.playerLeft = 0

\* Two rooms; a member of the second one names the first one, whose member
\* is found as the "opponent" but is not told anything.
C12_Witness ==
  \E r1 \in DOMAIN rooms, r2 \in DOMAIN rooms, c \in Conns :
    /\ r1 /= r2 /\ rooms[r1] /= 0 /\ rooms[r2] /= 0
    /\ c \in memberIds(heap[rooms[r2]])
    /\ c \notin memberIds(heap[rooms[r1]])
    /\ \E i \in Cells : heap[rooms[r2]].board[i] /= Null
    /\ getOpponentSocketId(heap, rooms, r1, c) /= 0
    /\ leaveRoomHandler(heap, rooms, c, r1).playerLeft = 0

\* C13: if connection c is already a member of room R and calls
\* joinRoom(R, correct secret, c) again, the call succeeds and returns c's
\* existing role, and R's players and status are unchanged; this holds both
\* when R has one member and when R has two members.
C13_RejoinIdempotent ==
  \A r \in liveIds :
    \A c \in memberIds(heap[rooms[r]]), passKey \in PassKeys :
      bcryptCompare(passKey, heap[rooms[r]].passKeyHash) =>
        LET res == joinRoomResume(heap[rooms[r]], passKey, c)
        IN /\ res.success
           /\ res.role = getPlayerRole(heap, rooms, r, c)
           /\ res.room.players = heap[rooms[r]].players
           /\ res.room.status = heap[rooms[r]].status

\* C14: joinRoom fails with ROOM_NOT_FOUND when the room is absent;
\* otherwise with WRONG_PASSKEY when the secret differs from the one given
\* at creation (also when the room is full); otherwise with ROOM_FULL when
\* the room already has 2 members and the caller is not one of them.  A
\* connection is added to a room's players only by a joinRoom that carries
\* that room's creation secret.
C14_JoinErrors ==
  /\ [](/\ \A o \in DOMAIN heap :
             heap[o].status /= "free" => heap[o].passKeyHash = bcryptHash(CreateKey)
        /\ \A c \in Conns, roomId \in DOMAIN rooms, passKey \in PassKeys :
             LET res == joinRoom(heap, rooms, roomId, passKey, c)
                 room == heap[rooms[roomId]]
             IN IF rooms[roomId] = 0
                THEN res.code = "ROOM_NOT_FOUND" /\ ~res.success /\ res.heap = heap
                ELSE IF passKey /= CreateKey
                THEN res.code = "WRONG_PASSKEY" /\ ~res.success
                ELSE IF Len(room.players) >= 2 /\ c \notin memberIds(room)
                THEN res.code = "ROOM_FULL" /\ ~res.success
                ELSE TRUE
        /\ \A p \in BagToSet(pendingJoins) :
             LET res == joinRoomResume(heap[p.room], p.passKey, p.socketId)
             IN /\ (p.passKey /= CreateKey) =>
                     (res.code = "WRONG_PASSKEY" /\ ~res.success)
                /\ (res.room.players /= heap[p.room].players) =>
                     p.passKey = CreateKey)
  /\ [][\A o \in DOMAIN heap :
          (/\ heap[o].status /= "free"
           /\ heap'[o].status /= "free"
           /\ ~(memberIds(heap'[o]) \subseteq memberIds(heap[o])))
          => \E p \in BagToSet(pendingJoins) :
               /\ p.room = o
               /\ p.passKey = CreateKey
               /\ JoinRoomFinish(p)]_vars

\* A full room on which the joinRoom of a third connection, carrying a
\* wrong key, is suspended at bcrypt.compare.
C14_Witness ==
  \E r \in liveIds :
    /\ Len(heap[rooms[r]].players) = 2
    /\ \E p \in BagToSet(pendingJoins) :
         /\ p.room = rooms[r]
         /\ p.socketId \notin memberIds(heap[rooms[r]])
         /\ ~bcryptCompare(p.passKey, heap[rooms[r]].passKeyHash)

\* C15: every coordinator call that returns an error (joinRoom,
\* applyMoveToRoom, registerReplayVote) leaves the whole room store exactly
\* as it was before the call: players, board, turn, status, replayVotes and
\* startingTurn of every room are unchanged and no room is added or
\* deleted.  In particular a join with a wrong secret leaves the room's
\* membership unchanged.
C15_ErrorsChangeNothing ==
  /\ [](/\ \A c \in Conns, roomId \in DOMAIN rooms :
             /\ \A passKey \in PassKeys :
                  LET j == joinRoom(heap, rooms, roomId, passKey, c)
                  IN /\ ~j.success => j.heap = heap
                     /\ (rooms[roomId] /= 0 /\ passKey /= CreateKey) =>
                          /\ ~j.success
                          /\ j.heap[rooms[roomId]].players = heap[rooms[roomId]].players
             /\ \A index \in Indexes :
                  LET a == applyMoveToRoom(heap, rooms, roomId, c, index)
                  IN ~a.success => a.heap = heap
             /\ LET v == registerReplayVote(heap, rooms, roomId, c)
                IN ~v.success => v.heap = heap
        /\ \A p \in BagToSet(pendingJoins) :
             LET r == joinRoomResume(heap[p.room], p.passKey, p.socketId)
             IN ~r.success =>
                  /\ r.room = heap[p.room]
                  /\ joinRoomHandler(heap, rooms, p).heap = heap)
  /\ [][\A p \in BagToSet(pendingJoins) :
          (/\ JoinRoomFinish(p)
           /\ ~joinRoomResume(heap[p.room], p.passKey, p.socketId).success)
          => /\ rooms' = rooms
             /\ \A r \in liveIds : heap'[rooms[r]] = heap[rooms[r]]]_vars

\* Scenario C: a room with its creator alone, and the joinRoom of another
\* connection with a wrong key suspended on it.
C15_Witness ==
  \E r \in liveIds :
    /\ Len(heap[rooms[r]].players) = 1
    /\ \E p \in BagToSet(pendingJoins) :
         /\ p.room = rooms[r]
         /\ p.socketId \notin memberIds(heap[rooms[r]])
         /\ p.passKey /= CreateKey
         /\ joinRoomHandler(heap, rooms, p).code = "WRONG_PASSKEY"

\* C16: every createRoom call completes successfully: it returns an
\* identifier that no other live room has, choosing another identifier when
\* the generated one is already in the store, and inserts a room with
\* status 'waiting', the creator as only member with role X, an all-empty
\* board, turn X and startingTurn X; no existing room is altered.
C16_CreateRoomSucceeds ==
  /\ \A roomId \in DOMAIN rooms : ~createRoomThrows(rooms, roomId)
  /\ \A p \in BagToSet(pendingCreates) :
       LET res == createRoomResume(heap, rooms, p.roomId, p.passKey, p.socketId)
           room == res.heap[res.rooms[p.roomId]]
       IN /\ res.rooms[p.roomId] /= 0
          /\ room.status = "waiting"
          /\ room.players = << [socketId |-> p.socketId, role |-> "X"] >>
          /\ \A i \in Cells : room.board[i] = Null
          /\ room.turn = "X" /\ room.startingTurn = "X"
          /\ \A r \in liveIds : res.rooms[r] = rooms[r]
          /\ \A o \in DOMAIN heap : heap[o] /= NoRoom => res.heap[o] = heap[o]

\* C17: whenever a join brings a room's membership from 1 to 2, the room
\* becomes 'playing' with an all-empty board and turn X, and the joiner is
\* given role O; this holds for the first game after creation and for every
\* later join that follows a member's departure.
C17_JoinStartsGame ==
  /\ [](\A p \in BagToSet(pendingJoins) :
          LET pre == heap[p.room]
              res == joinRoomResume(pre, p.passKey, p.socketId)
          IN (Len(pre.players) = 1 /\ Len(res.room.players) = 2) =>
               /\ res.success /\ res.role = "O"
               /\ res.room.players[2] = [socketId |-> p.socketId, role |-> "O"]
               /\ res.room.players[1] = pre.players[1]
               /\ res.room.status = "playing"
               /\ DOMAIN res.room.board = Cells
               /\ \A i \in Cells : res.room.board[i] = Null
               /\ res.room.turn = "X")
  /\ [][\A o \in DOMAIN heap :
          (Len(heap[o].players) = 1 /\ Len(heap'[o].players) = 2) =>
            /\ heap'[o].status = "playing"
            /\ heap'[o].board = EmptyBoard
            /\ heap'[o].turn = "X"
            /\ heap'[o].players[2].role = "O"
            /\ \E p \in BagToSet(pendingJoins) : p.room = o /\ JoinRoomFinish(p)]_vars

\* A game started by a join that followed the creator's departure: the
\* member who stayed is the one that had joined as O.
C17_Witness ==
  \E r \in liveIds :
    /\ heap[rooms[r]].status = "playing"
    /\ Len(heap[rooms[r]].players) = 2
    /\ heap[rooms[r]].players[1].role = "O"
    /\ heap[rooms[r]].startingTurn = "O"

\* C18: in every reachable state, the first entry of players of every live
\* room has role X, including after the original creator has left and the
\* other member remains.
C18_FirstIsX ==
  \A r \in liveIds : heap[rooms[r]].players[1].role = "X"

\* The role that opened the game on the board: the one with more marks,
\* and with as many marks on each side the one to move next (in a game
\* that is over: the one that did not move last; turn keeps the last mover).
countMarks(board, role) == Cardinality({i \in Cells : board[i] = role})

opener(room) ==
  IF countMarks(room.board, "X") > countMarks(room.board, "O") THEN "X"
  ELSE IF countMarks(room.board, "O") > countMarks(room.board, "X") THEN "O"
  ELSE IF room.status = "playing" THEN room.turn
  ELSE getOppositeRole(room.turn)

\* C19: in every reachable state where a room is 'playing' or 'ended',
\* room.startingTurn is the role that made (or, on an empty board, is about
\* to make) the first move of the current game; this holds after any
\* sequence of moves, replays, departures and re-joins, so that two
\* consecutive games in the same room are never opened by the same role
\* after a replay.
C19_StartingTurnIsOpener ==
  \A r \in liveIds :
    heap[rooms[r]].status \in {"playing", "ended"} =>
      heap[rooms[r]].startingTurn = opener(heap[rooms[r]])

\* C20: for any interleaving of make_move events sent by the two members
\* of a room, moves are applied one at a time against the current board:
\* two moves submitted for the same turn never both succeed, and within one
\* game no cell is written more than once.
C20_MovesSerialized ==
  /\ [](\A r \in liveIds, c1 \in Conns, i1 \in ServerIndexes :
          LET o == rooms[r]
              m1 == makeMoveHandler(heap, rooms, c1, r, i1)
          IN m1.success =>
               \A c2 \in Conns, i2 \in ServerIndexes :
                 LET m2 == makeMoveHandler(m1.heap, rooms, c2, r, i2)
                 IN /\ (getPlayerRole(heap, rooms, r, c2) = heap[o].turn) => ~m2.success
                    /\ (i2 = i1) => ~m2.success
                    /\ m2.success =>
                         /\ m2.heap[o].board[i1] = heap[o].turn
                         /\ m2.heap[o].board[i2] = getOppositeRole(heap[o].turn)
                         /\ \A i \in Cells \ {i1, i2} :
                              m2.heap[o].board[i] = heap[o].board[i])
  /\ [][\A o \in DOMAIN heap, i \in Cells :
          (heap[o].board[i] /= Null /\ heap'[o].board[i] /= heap[o].board[i])
          => heap'[o].board = EmptyBoard]_vars

\* A game in progress in which both members have moved and each of them
\* has a free cell to send.
C20_Witness ==
  \E r \in liveIds :
    LET room == heap[rooms[r]]
    IN /\ room.status = "playing"
       /\ countMarks(room.board, "X") >= 1
       /\ countMarks(room.board, "O") >= 1
       /\ \E c1 \in memberIds(room), c2 \in memberIds(room), i \in 0..MaxCell :
            /\ c1 /= c2
            /\ makeMoveHandler(heap, rooms, c1, r, i).success
            /\ makeMoveHandler(heap, rooms, c2, r, i).code = "NOT_YOUR_TURN"

\* The player_left messages of `emits' addressed to connection d.
playerLeftTo(emits, d) ==
  {k \in 1..Len(emits) : emits[k].event = "player_left" /\ emits[k].to = {d}}

\* C21: when a connection disconnects, it is removed from every room it is
\* a member of at that moment; for each such room that had a second member,
\* exactly one player_left is sent to that remaining member and the room is
\* forced to 'waiting'; each such room that had no other member is deleted.
\* The same holds for leave_room on the named room.
C21_DisconnectCleansUp ==
  /\ [](\A c \in Conns :
          LET ids == findPlayerRooms(heap, rooms, c)
              dis == removeFromAll(heap, rooms, ids, c)
              emits == disconnectEmits(heap, rooms, c)
              others(roomId) == memberIds(heap[rooms[roomId]]) \ {c}
          IN /\ \A roomId \in ids :
                  /\ IF others(roomId) /= {}
                     THEN /\ dis.rooms[roomId] = rooms[roomId]
                          /\ dis.heap[rooms[roomId]].status = "waiting"
                          /\ memberIds(dis.heap[rooms[roomId]]) = others(roomId)
                     ELSE dis.rooms[roomId] = 0
                  /\ LET lv == leaveRoomHandler(heap, rooms, c, roomId)
                         lvEmits == leaveRoomEmits(heap, rooms, c, roomId)
                     IN /\ IF others(roomId) /= {}
                           THEN /\ lv.rooms = rooms
                                /\ lv.heap[rooms[roomId]].status = "waiting"
                                /\ memberIds(lv.heap[rooms[roomId]]) = others(roomId)
                                /\ Len(lvEmits) = 1
                                /\ lvEmits[1].event = "player_left"
                                /\ lvEmits[1].to = others(roomId)
                           ELSE lv.rooms[roomId] = 0 /\ lvEmits = << >>
                        /\ \A r2 \in DOMAIN rooms \ {roomId} :
                             /\ lv.rooms[r2] = rooms[r2]
                             /\ rooms[r2] /= 0 => lv.heap[rooms[r2]] = heap[rooms[r2]]
             /\ \A roomId \in DOMAIN rooms \ ids :
                  /\ dis.rooms[roomId] = rooms[roomId]
                  /\ rooms[roomId] /= 0 => dis.heap[rooms[roomId]] = heap[rooms[roomId]]
             /\ \A k \in 1..Len(emits) :
                  emits[k].event = "player_left" /\ Cardinality(emits[k].to) = 1
             /\ \A d \in Conns :
                  Cardinality(playerLeftTo(emits, d))
                    = Cardinality({roomId \in ids : others(roomId) = {d}}))
  /\ [][\A c \in closed' \ closed :
          /\ Disconnect(c)
          /\ findPlayerRooms(heap', rooms', c) = {}
          /\ subs'[c] = {}]_vars

\* A connection in two rooms, alone in one and with an opponent in the
\* other: its disconnect deletes the first and notifies in the second.
C21_Witness ==
  \E c \in Conns, r1 \in DOMAIN rooms, r2 \in DOMAIN rooms :
    /\ r1 /= r2
    /\ {r1, r2} \subseteq findPlayerRooms(heap, rooms, c)
    /\ memberIds(heap[rooms[r1]]) = {c}
    /\ Len(heap[rooms[r2]].players) = 2
    /\ Len(disconnectEmits(heap, rooms, c)) = 1

\* Connections that receive message msg: a closed socket receives nothing.
deliveredTo(msg) == msg.to \ closed

\* C22: after every successful make_move, one board_update carrying the
\* post-move board, turn and winner is delivered to each of the room's two
\* members, and to no connection that is not a member of that room at that
\* moment.
C22_BoardUpdateToMembers ==
  \A c \in Conns, roomId \in DOMAIN rooms, index \in ServerIndexes :
    LET result == makeMoveHandler(heap, rooms, c, roomId, index)
        emits == makeMoveEmits(heap, rooms, subs, c, roomId, index)
    IN (c \notin closed /\ result.success) =>
         LET room == result.heap[rooms[roomId]]
         IN /\ Len(emits) = 1
            /\ emits[1].event = "board_update"
            /\ emits[1].body = <<room.board, room.turn, result.winner>>
            /\ Len(room.players) = 2
            /\ deliveredTo(emits[1]) = memberIds(room)

\* `emits' is one 'error' message, addressed to connection c alone.
oneErrorTo(emits, c, code) ==
  /\ Len(emits) = 1
  /\ emits[1].event = "error"
  /\ emits[1].to = {c}
  /\ emits[1].code = code
  /\ code /= "ok"

\* C23: when a create_room, join_room, make_move or replay_request event is
\* rejected, exactly one 'error' message is emitted and it goes to the
\* originating connection only: no other connection receives any message
\* because of that event, and nothing is broadcast to the room.
C23_ErrorToOriginatorOnly ==
  /\ \A c \in Conns, roomId \in DOMAIN rooms :
       /\ createRoomThrows(rooms, roomId) =>
            oneErrorTo(createRoomStartEmits(rooms, c, roomId), c, "INTERNAL_ERROR")
       /\ (rooms[roomId] = 0) =>
            oneErrorTo(joinRoomStartEmits(rooms, c, roomId), c, "ROOM_NOT_FOUND")
       /\ \A index \in ServerIndexes :
            LET result == makeMoveHandler(heap, rooms, c, roomId, index)
            IN ~result.success =>
                 oneErrorTo(makeMoveEmits(heap, rooms, subs, c, roomId, index),
                            c, result.code)
       /\ LET result == replayRequestHandler(heap, rooms, c, roomId)
          IN (result.code /= "ok") =>
               oneErrorTo(replayRequestEmits(heap, rooms, subs, c, roomId),
                          c, result.code)
  /\ \A p \in BagToSet(pendingJoins) :
       LET result == joinRoomHandler(heap, rooms, p)
       IN (result.code /= "ok") =>
            oneErrorTo(joinRoomFinishEmits(heap, rooms, p), p.socketId, result.code)

\* A join_room suspended on a room that has since been deleted: joinRoom
\* will succeed on the dead object and the handler will fail after it.
C23_Witness ==
  \E p \in BagToSet(pendingJoins) :
    /\ rooms[p.roomId] = 0
    /\ joinRoomResume(heap[p.room], p.passKey, p.socketId).success
    /\ joinRoomHandler(heap, rooms, p).code = "INTERNAL_ERROR"
    /\ \E c \in Conns : p.roomId \in subs[c]

\* C24 as stated: applyMoveToRoom by a connection with no role in the room
\* (a non-member of an existing room, or anyone when the room does not
\* exist) fails with NOT_IN_ROOM and changes no room.
C24_NoRoleIsNotInRoom ==
  \A c \in Conns, roomId \in DOMAIN rooms, index \in Indexes :
    getPlayerRole(heap, rooms, roomId, c) = Null =>
      LET result == applyMoveToRoom(heap, rooms, roomId, c, index)
      IN /\ ~result.success
         /\ result.code = "NOT_IN_ROOM"
         /\ result.heap = heap

\* C24 (amended): applyMoveToRoom by a connection with no role in the room
\* fails and changes no room; the code is NOT_IN_ROOM for a non-member of
\* an existing room and ROOM_NOT_FOUND when no room with that id exists.
C24_NoRoleFails ==
  \A c \in Conns, roomId \in DOMAIN rooms, index \in Indexes :
    getPlayerRole(heap, rooms, roomId, c) = Null =>
      LET result == applyMoveToRoom(heap, rooms, roomId, c, index)
      IN /\ ~result.success
         /\ result.code = IF rooms[roomId] = 0 THEN "ROOM_NOT_FOUND"
                          ELSE "NOT_IN_ROOM"
         /\ result.heap = heap

\* A game in progress with marks on the board, an empty cell, and a
\* connection that is not one of its players.
C24_Witness ==
  \E c \in Conns, roomId \in DOMAIN rooms, index \in 0..8 :
    /\ rooms[roomId] /= 0
    /\ getPlayerRole(heap, rooms, roomId, c) = Null
    /\ heap[rooms[roomId]].status = "playing"
    /\ heap[rooms[roomId]].board[index] = Null
    /\ \E k \in 0..8 : heap[rooms[roomId]].board[k] /= Null
    /\ applyMoveToRoom(heap, rooms, roomId, c, index).code = "NOT_IN_ROOM"

\* C25: in every reachable state each connection appears in the players of
\* at most one room of the store, whatever create_room, join_room,
\* leave_room and disconnect events it sends.
C25_AtMostOneRoom ==
  \A c \in Conns : Cardinality(findPlayerRooms(heap, rooms, c)) <= 1

\* What the claim calls a malformed field.
malformedPassKey(v) == ~(v.t = "string" /\ v.len >= 4 /\ v.len <= 20)
malformedRoomId(v) == ~(v.t = "string" /\ v.len = 6)
malformedIndex(v) == ~(isInteger(v) /\ v.tenths >= 0 /\ v.tenths <= 80)

\* The INVALID_* codes that match what is wrong in a payload.
createRoomCodes(data) ==
  IF ~data.present \/ malformedPassKey(data.passKey)
  THEN {"INVALID_PASSKEY"} ELSE {}
joinRoomCodes(data) ==
  IF ~data.present THEN {"INVALID_ROOM_ID", "INVALID_PASSKEY"}
  ELSE (IF malformedRoomId(data.roomId) THEN {"INVALID_ROOM_ID"} ELSE {})
         \cup (IF malformedPassKey(data.passKey) THEN {"INVALID_PASSKEY"} ELSE {})
makeMoveCodes(data) ==
  IF ~data.present THEN {"INVALID_ROOM_ID", "INVALID_CELL"}
  ELSE (IF malformedRoomId(data.roomId) THEN {"INVALID_ROOM_ID"} ELSE {})
         \cup (IF malformedIndex(data.index) THEN {"INVALID_CELL"} ELSE {})

\* C26: every create_room, join_room or make_move request whose payload is
\* malformed (payload missing, secret not a string of 4 to 20 characters,
\* roomId not a 6-character string, index not an integer in 0..8) is
\* answered with the matching INVALID_PASSKEY, INVALID_ROOM_ID or
\* INVALID_CELL code before any room-manager call is made, never with
\* INTERNAL_ERROR or a state-conflict or not-found code, and no room changes.
C26_MalformedIsInvalid ==
  \A c \in Conns \ closed :
    /\ \A data \in CreateRoomPayloads :
         LET answer == createRoomAnswer(heap, data)
         IN createRoomCodes(data) /= {} =>
              /\ answer.code \in createRoomCodes(data)
              /\ ~answer.called
              /\ answer.heap = heap
    /\ \A data \in JoinRoomPayloads(rooms) :
         LET answer == joinRoomAnswer(heap, rooms, c, data)
         IN joinRoomCodes(data) /= {} =>
              /\ answer.code \in joinRoomCodes(data)
              /\ ~answer.called
              /\ answer.heap = heap
    /\ \A data \in MakeMovePayloads(rooms) :
         LET answer == makeMoveAnswer(heap, rooms, c, data)
         IN makeMoveCodes(data) /= {} =>
              /\ answer.code \in makeMoveCodes(data)
              /\ ~answer.called
              /\ answer.heap = heap

C28_DrawIffFullNoWinner ==
  \A r \in liveIds :
    LET board == heap[rooms[r]].board
    IN /\ checkDraw(board) <=>
            ((\A i \in 0..8 : board[i] /= Null) /\ checkWinner(board) = Null)
       /\ ~(checkWinner(board) /= Null /\ checkDraw(board))

\* The lines in the order that starts at line k + 1 and wraps around, and
\* in reverse order.
rotateLines(lines, k) ==
  [i \in 1..Len(lines) |-> lines[((i + k - 1) % Len(lines)) + 1]]
reverseLines(lines) == [i \in 1..Len(lines) |-> lines[Len(lines) + 1 - i]]

\* The winning lines completely filled with one role's marks.
completeLines(board) ==
  {k \in 1..Len(WINNING_LINES) :
     /\ board[WINNING_LINES[k][1]] /= Null
     /\ board[WINNING_LINES[k][1]] = board[WINNING_LINES[k][2]]
     /\ board[WINNING_LINES[k][1]] = board[WINNING_LINES[k][3]]}

\* C29: on every board reachable by alternating legal moves through
\* applyMove, checkWinner returns the same result whatever the order in
\* which the 8 lines of WINNING_LINES are scanned.  A scan returns the mark
\* of the first complete line of its order, and every line comes first in
\* one of the 8 rotations, so the rotations (and the reverse order and its
\* rotations) return every result that some permutation returns.
C29_ScanOrderImmaterial ==
  \A r \in liveIds, k \in 0..(Len(WINNING_LINES) - 1) :
    LET board == heap[rooms[r]].board
    IN /\ scanLines(board, rotateLines(WINNING_LINES, k), 1) = checkWinner(board)
       /\ scanLines(board, rotateLines(reverseLines(WINNING_LINES), k), 1)
            = checkWinner(board)

\* A board on which two lines are complete, so that different orders stop
\* at different lines.
C29_Witness ==
  \E r \in liveIds :
    /\ Cardinality(completeLines(heap[rooms[r]].board)) = 2
    /\ checkWinner(heap[rooms[r]].board) /= Null

\* C30 as stated: on every board reachable by alternating legal moves, the
\* game stopping at the first win or draw, at most one of the 8 winning
\* lines is completely filled with one role's marks.
C30_AtMostOneLine ==
  \A r \in liveIds : Cardinality(completeLines(heap[rooms[r]].board)) <= 1

\* C30 (amended): on every such board the completely filled lines all carry
\* the marks of one role; there are at most two of them, and two are those
\* a single move completed: they cross in one cell.
C30_OneWinningRole ==
  \A r \in liveIds :
    LET board == heap[rooms[r]].board
        done == completeLines(board)
    IN /\ \A k1, k2 \in done :
            board[WINNING_LINES[k1][1]] = board[WINNING_LINES[k2][1]]
       /\ Cardinality(done) <= 2
       /\ \A k1, k2 \in done :
            k1 /= k2 => \E i1, i2 \in 1..3 :
                          WINNING_LINES[k1][i1] = WINNING_LINES[k2][i2]

\* A finished game in which the winner's last move, the ninth of the game,
\* completed two lines at once.
C30_Witness ==
  \E r \in liveIds :
    /\ heap[rooms[r]].status = "ended"
    /\ \E k1, k2 \in completeLines(heap[rooms[r]].board) : k1 /= k2
    /\ \A i \in 0..8 : heap[rooms[r]].board[i] /= Null

\* C31: in every reachable state the two members of a 2-member room have
\* different roles, one X and one O, including after a member has left and
\* a new connection has joined in their place.
C31_DistinctRoles ==
  \A r \in liveIds :
    LET players == heap[rooms[r]].players
    IN Len(players) = 2 =>
         {players[1].role, players[2].role} = {"X", "O"}

\* C32: in every reachable state where a room is 'playing', exactly one of
\* its members has the role equal to room.turn, so a make_move by that
\* member on some empty cell succeeds; no playing room is stuck with no
\* member able to move.
C32_SomeoneCanMove ==
  \A r \in liveIds :
    LET room == heap[rooms[r]]
    IN room.status = "playing" =>
         /\ Cardinality({k \in 1..Len(room.players) :
                           room.players[k].role = room.turn}) = 1
         /\ \E c \in memberIds(room), index \in 0..8 :
              /\ room.board[index] = Null
              /\ makeMoveHandler(heap, rooms, c, r, index).success

\* C33: in every reachable state and for every room in the store, status is
\* 'waiting' if and only if the room has exactly 1 member; status 'playing'
\* or 'ended' implies exactly 2 members; and status 'waiting' implies an
\* all-empty board, turn X and empty replayVotes.
C33_StatusAndMembers ==
  \A r \in liveIds :
    LET room == heap[rooms[r]]
    IN /\ room.status \in {"waiting", "playing", "ended"}
       /\ (room.status = "waiting") <=> (Len(room.players) = 1)
       /\ room.status \in {"playing", "ended"} => Len(room.players) = 2
       /\ room.status = "waiting" =>
            /\ \A i \in 0..8 : room.board[i] = Null
            /\ room.turn = "X"
            /\ room.replayVotes = {}

\* A room back to waiting after a game was played in it and one of its
\* two players left.
C33_Witness ==
  \E r \in liveIds, p \in BagToSet(pendingJoins) :
    /\ heap[rooms[r]].status = "waiting"
    /\ p.room = rooms[r]
    /\ p.socketId \notin memberIds(heap[rooms[r]])
    /\ heap[rooms[r]].startingTurn = "O"

\* C34: once the disconnect event of connection c has been handled, c is in
\* the players of no room of the store, in that state and in every later
\* one, even when c had a create_room or join_room request suspended at
\* bcrypt when it disconnected.
C34_ClosedInNoRoom ==
  \A c \in closed : \A r \in liveIds : c \notin memberIds(heap[rooms[r]])

\* C35: two createRoom calls that overlap (both suspended at bcrypt.hash)
\* never insert under the same roomId: a room inserted by one createRoom is
\* never replaced by another, so a creator told room_created for id R stays
\* a member of the room of the store under R until it leaves or disconnects.
C35_NoRoomReplaced ==
  /\ [](\A p1, p2 \in BagToSet(pendingCreates) :
          /\ pendingCreates[p1] = 1
          /\ p1.roomId = p2.roomId => p1 = p2)
  /\ [][\A r \in DOMAIN rooms :
          rooms[r] /= 0 => rooms'[r] \in {0, rooms[r]}]_vars

\* C36: whenever joinRoom returns success to connection c for room R, R is
\* in the store and c is in R.players at that moment, even when R's last
\* member leaves or disconnects while the join is suspended at the pass-key
\* comparison; a join never adds a member to a room object that has been
\* deleted from the store.
C36_JoinedRoomIsLive ==
  \A p \in BagToSet(pendingJoins) :
    LET result == joinRoomResume(heap[p.room], p.passKey, p.socketId)
    IN result.success =>
         /\ rooms[p.roomId] = p.room
         /\ p.socketId \in memberIds(result.room)


\* A connection none of whose messages is in flight: nothing it emitted
\* waits for the server, nothing emitted to it waits for its page, and no
\* createRoom or joinRoom call of its is suspended.
quiet(c) ==
  /\ toServer[c] = << >>
  /\ toClient[c] = << >>
  /\ \A p \in BagToSet(pendingCreates) \cup BagToSet(pendingJoins) : p.socketId /= c

\* C37: whenever a client's gameState.roomId is null (it shows the menu
\* after handlePlayerLeft or handleLeaveRoom) and none of its messages is
\* still in flight, its connection is not a member of any room on the
\* server.
C37_MenuMeansNoRoom ==
  \A c \in Conns \ closed :
    (/\ gameState[c].roomId = 0
     /\ gameState[c].screen = "menu-screen"
     /\ quiet(c))
      => findPlayerRooms(heap, rooms, c) = {}
====
